---- MODULE Spec2Model ----
(***************************************************************************)
(* Event broker subsystem of StudioLambda/Cosmos (framework/event).         *)
(*                                                                         *)
(* The module models                                                       *)
(*   - the canonical pattern matcher (matchEvent / matchEventParts),       *)
(*   - the MQTT topic translator and matcher (convertTopic / matchTopic),  *)
(*   - the MemoryBroker (Publish / Subscribe / unsubscribe / Close and the *)
(*     delivery goroutines),                                               *)
(*   - the MQTTBroker (Subscribe / unsubscribe / route / Close) together   *)
(*     with the wire subscriptions its client holds at the MQTT server,    *)
(*   - the AMQPBroker (Publish / Subscribe / unsubscribe / Close and the   *)
(*     consumption goroutines), and                                        *)
(*   - the NATSBroker (Publish / Subscribe / unsubscribe / Close) together *)
(*     with the pending messages of its connection.                        *)
(*                                                                         *)
(* Strings are sequences of one-character strings, so that splitting and   *)
(* replacing are computed the way the Go code computes them.               *)
(***************************************************************************)
EXTENDS Integers, Sequences, FiniteSets, TLC

VARIABLES
    backend,        \* which broker instance this behaviour is about
    calls,          \* one record per API call: operation, position, locals
    handlers,       \* MemoryBroker.handlers : pattern -> (handlerID -> handler)
    nextID,         \* MemoryBroker.nextID
    isClosed,       \* MemoryBroker.isClosed
    mu,             \* MemoryBroker.mu (RWMutex)
    goroutines,     \* goroutines spawned by `go b.deliverToHandler(...)`
    crashed,        \* TRUE once an unrecovered panic has ended the process
    mqttHandlers,   \* MQTTBroker.handlers : topic -> (handlerID -> handler)
    subscriptions,  \* MQTTBroker.subscriptions : topic -> bool
    mqttNextID,     \* MQTTBroker.nextID
    mqttMu,         \* MQTTBroker.mu (RWMutex)
    wire,           \* topic filters the MQTT server holds for this client
    wireUnsubFailed,\* TRUE once a wire unsubscribe has failed
    overlapped,     \* TRUE once two registry calls were in progress together
    mPattern,       \* matcher input: pattern
    mEvent,         \* matcher input: event
    mResult,        \* matcher output: <<>> before the call, <<result>> after
    conn,           \* AMQPBroker.conn : "open" or "closed"
    pubCh,          \* AMQPBroker.pubCh : "open" or "closed"
    ch,             \* AMQP Subscribe's ch, one per subscription
    deliveries,     \* AMQP Subscribe's deliveries: messages buffered for it
    wg,             \* AMQP Subscribe's wg: the WaitGroup counter
    task,           \* position of the consumption goroutine of a subscription
    natsConn,       \* NATSBroker.conn : "connected", "draining" or "closed"
    natsSubs,       \* the subscriptions of the NATS connection
    natsDropped,    \* pending messages thrown away by closing the connection
    ctxDone,        \* Subscribe call -> calls made when its context ended
    connected,      \* the MQTT client is connected (FALSE after Disconnect)
    redisSubs,      \* Redis Subscribe call -> its sub and consumption task
    options,        \* the options argument of a constructor
    built           \* <<>> before the constructor ran, <<what it built>> after

vars == <<backend, calls, handlers, nextID, isClosed, mu, goroutines, crashed,
          mqttHandlers, subscriptions, mqttNextID, mqttMu, wire,
          wireUnsubFailed, overlapped, mPattern, mEvent, mResult,
          conn, pubCh, ch, deliveries, wg, task, natsConn, natsSubs,
          natsDropped, ctxDone, connected, redisSubs, options, built>>

memVars == <<handlers, nextID, isClosed, mu, goroutines, crashed>>
mqttVars == <<mqttHandlers, subscriptions, mqttNextID, mqttMu, wire,
              wireUnsubFailed>>
matchVars == <<mPattern, mEvent, mResult>>
amqpVars == <<conn, pubCh, ch, deliveries, wg, task>>
natsVars == <<natsConn, natsSubs, natsDropped>>
ctorVars == <<options, built>>
\* what the actions of the Memory broker, the MQTT registry and the matcher
\* leave alone
extVars == <<amqpVars, natsVars, ctxDone, connected, redisSubs, ctorVars>>

(***************************************************************************)
(* Bounds.                                                                 *)
(***************************************************************************)
\* number of API calls (Publish, Subscribe, unsubscribe, Close, route) of one
\* behaviour
MaxCalls == 3
\* longest pattern / event string the matcher is enumerated on
MaxLen == 3

Calls == 1..MaxCalls

(***************************************************************************)
(* Strings.                                                                *)
(***************************************************************************)
Dot == "."
Star == "*"
Hash == "#"
Slash == "/"
Plus == "+"

\* strings.Split(s, sep) for a one-character separator: always at least one
\* token; the empty string splits into one empty token.
RECURSIVE Split(_, _)
Split(s, sep) ==
    IF \A i \in 1..Len(s) : s[i] # sep
    THEN <<s>>
    ELSE LET i == CHOOSE k \in 1..Len(s) :
                      /\ s[k] = sep
                      /\ \A j \in 1..(k - 1) : s[j] # sep
         IN <<SubSeq(s, 1, i - 1)>> \o Split(SubSeq(s, i + 1, Len(s)), sep)

\* strings.ReplaceAll(s, old, new) for one-character old and new.
ReplaceAll(s, old, new) ==
    [i \in 1..Len(s) |-> IF s[i] = old THEN new ELSE s[i]]

Tail2(s) == SubSeq(s, 2, Len(s))

(***************************************************************************)
(* Pattern matcher of the Memory broker.                                   *)
(***************************************************************************)
\* A matcher whose "#" needs at least one remaining token (a plausible slip
\* in the order of the two length tests).
RECURSIVE matchEventPartsHashNeedsToken(_, _)
matchEventPartsHashNeedsToken(pattern, event) ==
    IF Len(pattern) = 0 THEN Len(event) = 0
    ELSE IF Len(event) = 0 THEN FALSE
    ELSE IF pattern[1] = <<Hash>> THEN TRUE
    ELSE IF pattern[1] = <<Star>> \/ pattern[1] = event[1]
         THEN matchEventPartsHashNeedsToken(Tail2(pattern), Tail2(event))
    ELSE FALSE

\* A matcher whose "#" stands for any run of tokens and then goes on with the
\* rest of the pattern (the AMQP topic-exchange reading of "#").
RECURSIVE matchEventPartsHashContinues(_, _)
matchEventPartsHashContinues(pattern, event) ==
    IF Len(pattern) = 0 THEN Len(event) = 0
    ELSE IF pattern[1] = <<Hash>>
         THEN \E k \in 0..Len(event) :
                  matchEventPartsHashContinues(
                      Tail2(pattern), SubSeq(event, k + 1, Len(event)))
    ELSE IF Len(event) = 0 THEN FALSE
    ELSE IF pattern[1] = <<Star>> \/ pattern[1] = event[1]
         THEN matchEventPartsHashContinues(Tail2(pattern), Tail2(event))
    ELSE FALSE

RECURSIVE matchEventParts(_, _)
matchEventParts(pattern, event) ==
    IF Len(pattern) = 0 THEN Len(event) = 0
    ELSE IF Len(event) = 0 THEN pattern[1] = <<Hash>>
    ELSE IF pattern[1] = <<Hash>> THEN TRUE
    ELSE IF pattern[1] = <<Star>> \/ pattern[1] = event[1]
         THEN matchEventParts(Tail2(pattern), Tail2(event))
    ELSE FALSE

\* a matcher that knows no wildcard
matchEventNoWildcards(pattern, event) == pattern = event

matchEvent(pattern, event) ==
    IF pattern = event
    THEN TRUE
    ELSE matchEventParts(Split(pattern, Dot), Split(event, Dot))

(***************************************************************************)
(* Topic translator and matcher of the MQTT broker.                        *)
(***************************************************************************)
convertTopic(event) == ReplaceAll(ReplaceAll(event, Dot, Slash), Star, Plus)

RECURSIVE matchParts(_, _)
matchParts(pattern, topic) ==
    IF Len(pattern) = 0 THEN Len(topic) = 0
    ELSE IF Len(topic) = 0 THEN pattern[1] = <<Hash>>
    ELSE IF pattern[1] = <<Hash>> THEN TRUE
    ELSE IF pattern[1] = <<Plus>> \/ pattern[1] = topic[1]
         THEN matchParts(Tail2(pattern), Tail2(topic))
    ELSE FALSE

matchTopic(pattern, topic) ==
    IF pattern = topic
    THEN TRUE
    ELSE matchParts(Split(pattern, Slash), Split(topic, Slash))

(***************************************************************************)
(* Inputs.                                                                 *)
(***************************************************************************)
UserStar == <<"u", "s", "e", "r", ".", "*">>
UserCreated == <<"u", "s", "e", "r", ".", "c", "r", "e", "a", "t", "e", "d">>
UserStarCreated ==
    <<"u", "s", "e", "r", ".", "*", ".", "c", "r", "e", "a", "t", "e", "d">>
User123Created ==
    <<"u", "s", "e", "r", ".", "1", "2", "3", ".",
      "c", "r", "e", "a", "t", "e", "d">>
User123456Created ==
    <<"u", "s", "e", "r", ".", "1", "2", "3", ".", "4", "5", "6", ".",
      "c", "r", "e", "a", "t", "e", "d">>
LogsHash == <<"l", "o", "g", "s", ".", "#">>
Logs == <<"l", "o", "g", "s">>
LogsErrorDb ==
    <<"l", "o", "g", "s", ".", "e", "r", "r", "o", "r", ".", "d", "b">>

\* characters of the enumerated matcher inputs: two ordinary characters, the
\* separator and the two wildcards
Alphabet == {"a", "b", Dot, Star, Hash}

RECURSIVE StringsUpTo(_)
StringsUpTo(n) ==
    IF n = 0
    THEN {<<>>}
    ELSE LET shorter == StringsUpTo(n - 1)
         IN shorter \cup {Append(s, c) : s \in shorter, c \in Alphabet}

ExampleStrings ==
    {UserStar, UserCreated, UserStarCreated, User123Created,
     User123456Created, LogsHash, Logs, LogsErrorDb}

MatcherInputs == StringsUpTo(MaxLen) \cup ExampleStrings

(***************************************************************************)
(* Call records, registries and locks.                                     *)
(***************************************************************************)
Patterns == {UserStar, UserCreated, LogsHash}
Events == {UserCreated, Logs}

\* Payloads are values of a Go struct type with one exported and one
\* unexported field.  json.Marshal writes the exported fields only;
\* json.Unmarshal into a pointer to a zero value of the type sets the exported
\* fields and leaves the others zero, and fails on a destination it cannot
\* decode into, which it leaves as it was.
ZeroValue == [exported |-> 0, unexported |-> 0]
DefaultPayload == [exported |-> 1, unexported |-> 0]
Payloads ==
    {[exported |-> 2, unexported |-> 0], [exported |-> 1, unexported |-> 1]}

\* what a handler does with its decoder: nothing, decode into a pointer to
\* the payload's type, or decode into something that cannot take it
Dests == {"none", "struct", "bad"}

jsonMarshal(payload) == <<payload.exported>>

\* an Unmarshal that reports success and sets nothing
jsonUnmarshalSetsNothing(encoded, dest) ==
    IF dest = "struct"
    THEN [dest |-> dest, err |-> "nil", value |-> ZeroValue]
    ELSE [dest |-> dest, err |-> "decodeErr", value |-> ZeroValue]

jsonUnmarshal(encoded, dest) ==
    IF dest = "struct"
    THEN [dest |-> dest, err |-> "nil",
          value |-> [exported |-> encoded[1], unexported |-> 0]]
    ELSE [dest |-> dest, err |-> "decodeErr", value |-> ZeroValue]

\* the decoder has not been called
NoDecode == [dest |-> "none", err |-> "nil", value |-> ZeroValue]

\* from is the route (or consumption task) whose handler made the call, 0 for
\* a call made from outside any handler
NoCall ==
    [op |-> "idle", pc |-> "idle", arg |-> <<>>, topic |-> <<>>, id |-> 0,
     target |-> 0, res |-> "none", flag |-> FALSE, visited |-> {},
     snap |-> <<>>, dispatched |-> {}, afterClose |-> FALSE, n0 |-> 0,
     wsub |-> 0, wunsub |-> 0, pubErr |-> FALSE, connTried |-> FALSE,
     connErr |-> FALSE, payload |-> ZeroValue, encoded |-> <<>>,
     marshals |-> 0, from |-> 0]

Started(c) == calls[c].op # "idle"
InProgress(c) == Started(c) /\ calls[c].pc # "done"
\* call slots are used in index order
CanStart(c) ==
    /\ ~crashed
    /\ calls[c].op = "idle"
    /\ IF c = 1 THEN TRUE ELSE Started(c - 1)
At(c, op, pc) == ~crashed /\ calls[c].op = op /\ calls[c].pc = pc
Return(rec, res) == [rec EXCEPT !.pc = "done", !.res = res]

\* a Close call of the broker has returned
CloseReturned ==
    \E c \in DOMAIN calls :
        calls[c].op \in {"close", "mqttClose"} /\ calls[c].pc = "done"

\* registry[pattern][id] = handler, creating the inner map when it is missing
Register(registry, pattern, id, handler) ==
    LET inner == IF pattern \in DOMAIN registry THEN registry[pattern] ELSE <<>>
        put == [x \in DOMAIN inner \cup {id} |->
                    IF x = id THEN handler ELSE inner[x]]
    IN [p \in DOMAIN registry \cup {pattern} |->
            IF p = pattern THEN put ELSE registry[p]]

\* f[k] = v, adding the key when it is missing
Put(f, k, v) == [x \in DOMAIN f \cup {k} |-> IF x = k THEN v ELSE f[x]]

\* delete(registry, pattern)
DeletePattern(registry, pattern) ==
    [p \in DOMAIN registry \ {pattern} |-> registry[p]]

\* delete(registry[pattern], id); a missing inner map is left missing
DeleteID(registry, pattern, id) ==
    IF pattern \in DOMAIN registry
    THEN [registry EXCEPT ![pattern] =
              [x \in DOMAIN registry[pattern] \ {id} |-> registry[pattern][x]]]
    ELSE registry

\* len(registry[pattern]), 0 for a missing inner map
LenOf(registry, pattern) ==
    IF pattern \in DOMAIN registry
    THEN Cardinality(DOMAIN registry[pattern])
    ELSE 0

\* the <<pattern, id>> keys of a registry
Keys(registry) ==
    UNION {{<<p, x>> : x \in DOMAIN registry[p]} : p \in DOMAIN registry}

\* sync.RWMutex: w is the call holding the write lock (0 for none), r the
\* calls holding a read lock
Unlocked == [w |-> 0, r |-> {}]
\* a write lock that does not wait for the readers
CanLockIgnoringReaders(m) == m.w = 0
CanLock(m) == m.w = 0 /\ m.r = {}
CanRLock(m) == m.w = 0
RLock(m, c) == [m EXCEPT !.r = @ \cup {c}]
RUnlock(m, c) == [m EXCEPT !.r = @ \ {c}]

(***************************************************************************)
(* MemoryBroker.                                                           *)
(***************************************************************************)
\* the goroutines one `for _, handler := range patternHandlers` loop spawns
Spawn(c, pattern) ==
    {[pub |-> c, pattern |-> pattern, id |-> x, h |-> handlers[pattern][x],
      n |-> Cardinality({g \in goroutines :
                            g.pub = c /\ g.pattern = pattern /\ g.id = x}),
      st |-> "pending", enc |-> calls[c].encoded, dec |-> NoDecode] :
        x \in DOMAIN handlers[pattern]}

\* a Publish that looks at the context before the closed flag
MemPublishPayloadCtxFirst(c, event, fail, payload) ==
    /\ backend = "memory"
    /\ CanStart(c)
    /\ LET rec == [NoCall EXCEPT !.op = "publish", !.arg = event,
                                 !.afterClose = CloseReturned,
                                 !.payload = payload]
       IN calls' = [calls EXCEPT ![c] =
              IF fail = "ctx" THEN Return(rec, "ctxErr")
              ELSE IF isClosed THEN Return(rec, "ErrBrokerClosed")
              ELSE IF fail = "enc"
                   THEN Return([rec EXCEPT !.marshals = 1], "encErr")
              ELSE [rec EXCEPT !.pc = "rlock", !.marshals = 1,
                               !.encoded = jsonMarshal(payload)]]
    /\ UNCHANGED <<backend, memVars, mqttVars, overlapped, matchVars, extVars>>

\* Publish, lines 79-91: the closed check, the context check and the one
\* serialization of the payload; fail is what the caller's context and an
\* unencodable payload make fail
MemPublishPayload(c, event, fail, payload) ==
    /\ backend = "memory"
    /\ CanStart(c)
    /\ LET rec == [NoCall EXCEPT !.op = "publish", !.arg = event,
                                 !.afterClose = CloseReturned,
                                 !.payload = payload]
       IN calls' = [calls EXCEPT ![c] =
              IF isClosed THEN Return(rec, "ErrBrokerClosed")
              ELSE IF fail = "ctx" THEN Return(rec, "ctxErr")
              ELSE IF fail = "enc"
                   THEN Return([rec EXCEPT !.marshals = 1], "encErr")
              ELSE [rec EXCEPT !.pc = "rlock", !.marshals = 1,
                               !.encoded = jsonMarshal(payload)]]
    /\ UNCHANGED <<backend, memVars, mqttVars, overlapped, matchVars, extVars>>

\* Publish of the default payload
MemPublish(c, event, fail) == MemPublishPayload(c, event, fail, DefaultPayload)

\* Publish, line 93: b.mu.RLock()
MemPublishRLock(c) ==
    /\ At(c, "publish", "rlock")
    /\ CanRLock(mu)
    /\ mu' = RLock(mu, c)
    /\ calls' = [calls EXCEPT ![c].pc = "range", ![c].snap = handlers]
    /\ UNCHANGED <<backend, handlers, nextID, isClosed, goroutines, crashed,
                   mqttVars, overlapped, matchVars, extVars>>

\* Publish, lines 96-104: one iteration of the range over b.handlers
MemPublishRange(c) ==
    /\ At(c, "publish", "range")
    /\ \E pattern \in DOMAIN handlers \ calls[c].visited :
          LET hit == matchEvent(pattern, calls[c].arg)
              new == IF hit THEN Spawn(c, pattern) ELSE {}
          IN /\ goroutines' = goroutines \cup new
             /\ calls' = [calls EXCEPT
                    ![c].visited = @ \cup {pattern},
                    ![c].dispatched = @ \cup {<<g.pattern, g.id>> : g \in new}]
    /\ UNCHANGED <<backend, handlers, nextID, isClosed, mu, crashed,
                   mqttVars, overlapped, matchVars, extVars>>

\* a Publish that waits for the handlers it dispatched before it returns
MemPublishReturnWaits(c) ==
    /\ At(c, "publish", "range")
    /\ DOMAIN handlers \ calls[c].visited = {}
    /\ \A g \in goroutines : g.pub = c => g.st # "pending"
    /\ mu' = RUnlock(mu, c)
    /\ calls' = [calls EXCEPT ![c] = Return(@, "nil")]
    /\ UNCHANGED <<backend, handlers, nextID, isClosed, goroutines, crashed,
                   mqttVars, overlapped, matchVars, extVars>>

\* Publish, lines 94 and 106: the range is over, RUnlock and return nil
MemPublishReturn(c) ==
    /\ At(c, "publish", "range")
    /\ DOMAIN handlers \ calls[c].visited = {}
    /\ mu' = RUnlock(mu, c)
    /\ calls' = [calls EXCEPT ![c] = Return(@, "nil")]
    /\ UNCHANGED <<backend, handlers, nextID, isClosed, goroutines, crashed,
                   mqttVars, overlapped, matchVars, extVars>>

\* deliverToHandler, lines 178-190: the handler runs once, calls the decoder
\* it was given on dest (or does not call it) and returns or panics; the
\* deferred recover swallows the panic
MemDeliverDecoding(g, dest) ==
    /\ backend = "memory"
    /\ ~crashed
    /\ g \in goroutines
    /\ g.st = "pending"
    /\ \E outcome \in {"returned", "panicked"} :
          goroutines' = (goroutines \ {g}) \cup
              {[g EXCEPT !.st = outcome,
                         !.dec = IF dest = "none" THEN NoDecode
                                 ELSE jsonUnmarshal(g.enc, dest)]}
    /\ UNCHANGED <<backend, calls, handlers, nextID, isClosed, mu, crashed,
                   mqttVars, overlapped, matchVars, extVars>>

\* deliverToHandler without its deferred recover: a panic ends the process
MemDeliverToHandlerNoRecover(g) ==
    /\ backend = "memory"
    /\ ~crashed
    /\ g \in goroutines
    /\ g.st = "pending"
    /\ \E outcome \in {"returned", "panicked"} :
          /\ goroutines' = (goroutines \ {g}) \cup {[g EXCEPT !.st = outcome]}
          /\ crashed' = (outcome = "panicked")
    /\ UNCHANGED <<backend, calls, handlers, nextID, isClosed, mu,
                   mqttVars, overlapped, matchVars, extVars>>

\* a handler that does not look at its payload
MemDeliverToHandler(g) == MemDeliverDecoding(g, "none")

\* Subscribe, lines 128-130: the closed check
MemSubscribe(c, pattern) ==
    /\ backend = "memory"
    /\ CanStart(c)
    /\ LET rec == [NoCall EXCEPT !.op = "subscribe", !.arg = pattern,
                                 !.afterClose = CloseReturned]
       IN calls' = [calls EXCEPT ![c] =
              IF isClosed THEN Return(rec, "ErrBrokerClosed")
              ELSE [rec EXCEPT !.pc = "id"]]
    /\ UNCHANGED <<backend, memVars, mqttVars, overlapped, matchVars, extVars>>

\* a handler ID read from the counter without the atomic increment
MemSubscribeIDNoAdd(c) ==
    /\ At(c, "subscribe", "id")
    /\ calls' = [calls EXCEPT ![c].pc = "lock", ![c].id = nextID + 1]
    /\ UNCHANGED <<backend, memVars, mqttVars, overlapped, matchVars, extVars>>

\* Subscribe, line 132: handlerID from b.nextID.Add(1)
MemSubscribeID(c) ==
    /\ At(c, "subscribe", "id")
    /\ nextID' = nextID + 1
    /\ calls' = [calls EXCEPT ![c].pc = "lock", ![c].id = nextID + 1]
    /\ UNCHANGED <<backend, handlers, isClosed, mu, goroutines, crashed,
                   mqttVars, overlapped, matchVars, extVars>>

\* Subscribe, lines 134-156: under b.mu.Lock(), register the handler; unlock
\* and return the handle
MemSubscribeRegister(c) ==
    /\ At(c, "subscribe", "lock")
    /\ CanLock(mu)
    /\ handlers' = Register(handlers, calls[c].arg, calls[c].id, c)
    /\ calls' = [calls EXCEPT ![c] = Return(@, "nil")]
    /\ UNCHANGED <<backend, nextID, isClosed, mu, goroutines, crashed,
                   mqttVars, overlapped, matchVars, extVars>>

\* the handle Subscribe call s returned
HasHandle(s, op) ==
    calls[s].op = op /\ calls[s].pc = "done" /\ calls[s].res = "nil"

\* an unsubscribe closure that drops the whole pattern entry
MemRemoveHandlerDropPattern(registry, pattern, id) ==
    IF pattern \in DOMAIN registry
    THEN DeletePattern(registry, pattern)
    ELSE registry

\* an unsubscribe closure that leaves a pattern entry it has emptied
MemRemoveHandlerKeepEmpty(registry, pattern, id) ==
    DeleteID(registry, pattern, id)

\* unsubscribe closure, lines 147-153
MemRemoveHandler(registry, pattern, id) ==
    IF pattern \in DOMAIN registry
    THEN LET removed == DeleteID(registry, pattern, id)
         IN IF LenOf(removed, pattern) = 0
            THEN DeletePattern(removed, pattern)
            ELSE removed
    ELSE registry

\* an unsubscribe closure that reports a handler it does not find
MemUnsubscribeStrict(c, s) ==
    /\ backend = "memory"
    /\ CanStart(c)
    /\ HasHandle(s, "subscribe")
    /\ CanLock(mu)
    /\ handlers' = MemRemoveHandler(handlers, calls[s].arg, calls[s].id)
    /\ calls' = [calls EXCEPT ![c] =
           Return([NoCall EXCEPT !.op = "unsubscribe", !.target = s,
                                 !.arg = calls[s].arg, !.id = calls[s].id,
                                 !.afterClose = CloseReturned],
                  IF <<calls[s].arg, calls[s].id>> \in Keys(handlers)
                  THEN "nil"
                  ELSE "ErrNotSubscribed")]
    /\ UNCHANGED <<backend, nextID, isClosed, mu, goroutines, crashed,
                   mqttVars, overlapped, matchVars, extVars>>

\* unsubscribe closure of Subscribe call s, lines 143-156: under b.mu.Lock(),
\* remove the handler; unlock and return nil
MemUnsubscribe(c, s) ==
    /\ backend = "memory"
    /\ CanStart(c)
    /\ HasHandle(s, "subscribe")
    /\ CanLock(mu)
    /\ handlers' = MemRemoveHandler(handlers, calls[s].arg, calls[s].id)
    /\ calls' = [calls EXCEPT ![c] =
           Return([NoCall EXCEPT !.op = "unsubscribe", !.target = s,
                                 !.arg = calls[s].arg, !.id = calls[s].id,
                                 !.afterClose = CloseReturned], "nil")]
    /\ UNCHANGED <<backend, nextID, isClosed, mu, goroutines, crashed,
                   mqttVars, overlapped, matchVars, extVars>>

\* a Close that forgets to set the closed flag
MemCloseNoStore(c) ==
    /\ backend = "memory"
    /\ CanStart(c)
    /\ calls' = [calls EXCEPT ![c] =
           [NoCall EXCEPT !.op = "close", !.pc = "lock",
                          !.afterClose = CloseReturned]]
    /\ UNCHANGED <<backend, memVars, mqttVars, overlapped, matchVars, extVars>>

\* Close, line 164: b.isClosed.Store(true)
MemClose(c) ==
    /\ backend = "memory"
    /\ CanStart(c)
    /\ isClosed' = TRUE
    /\ calls' = [calls EXCEPT ![c] =
           [NoCall EXCEPT !.op = "close", !.pc = "lock",
                          !.afterClose = CloseReturned]]
    /\ UNCHANGED <<backend, handlers, nextID, mu, goroutines, crashed,
                   mqttVars, overlapped, matchVars, extVars>>

\* Close, lines 166-171: under b.mu.Lock(), replace the registry by an empty
\* one; unlock and return nil
MemCloseClear(c) ==
    /\ At(c, "close", "lock")
    /\ CanLock(mu)
    /\ handlers' = <<>>
    /\ calls' = [calls EXCEPT ![c] = Return(@, "nil")]
    /\ UNCHANGED <<backend, nextID, isClosed, mu, goroutines, crashed,
                   mqttVars, overlapped, matchVars, extVars>>

PublishFailures == {"none", "ctx", "enc"}

NextMemory ==
    \/ \E c \in Calls, e \in Events, f \in PublishFailures : MemPublish(c, e, f)
    \/ \E c \in Calls : MemPublishRLock(c)
    \/ \E c \in Calls : MemPublishRange(c)
    \/ \E c \in Calls : MemPublishReturn(c)
    \/ \E g \in goroutines : MemDeliverToHandler(g)
    \/ \E c \in Calls, p \in Patterns : MemSubscribe(c, p)
    \/ \E c \in Calls : MemSubscribeID(c)
    \/ \E c \in Calls : MemSubscribeRegister(c)
    \/ \E c \in Calls, s \in Calls : MemUnsubscribe(c, s)
    \/ \E c \in Calls : MemClose(c)
    \/ \E c \in Calls : MemCloseClear(c)

\* no AMQP subscription, no NATS subscription, no context ended, the MQTT
\* client connected
InitTransports ==
    /\ conn = "open"
    /\ pubCh = "open"
    /\ ch = <<>>
    /\ deliveries = <<>>
    /\ wg = <<>>
    /\ task = <<>>
    /\ natsConn = "connected"
    /\ natsSubs = <<>>
    /\ natsDropped = 0
    /\ ctxDone = <<>>
    /\ connected = TRUE
    /\ redisSubs = <<>>

\* no constructor call is part of a broker's behaviour
InitNoCtor == options = <<>> /\ built = <<>>

InitExt == InitTransports /\ InitNoCtor

\* every broker as its constructor leaves it
InitRegistries ==
    /\ handlers = <<>>
    /\ nextID = 0
    /\ isClosed = FALSE
    /\ mu = Unlocked
    /\ goroutines = {}
    /\ crashed = FALSE
    /\ mqttHandlers = <<>>
    /\ subscriptions = <<>>
    /\ mqttNextID = 0
    /\ mqttMu = Unlocked
    /\ wire = {}
    /\ wireUnsubFailed = FALSE
    /\ overlapped = FALSE

InitFields == InitExt /\ InitRegistries

\* no matcher call is part of a broker's behaviour
InitNoMatch == mPattern = <<>> /\ mEvent = <<>> /\ mResult = <<>>

InitCommon == calls = [c \in Calls |-> NoCall] /\ InitFields /\ InitNoMatch

InitMemory == backend = "memory" /\ InitCommon

SpecMemory == InitMemory /\ [][NextMemory]_vars

\* the calls made so far
StartedCalls == {c \in Calls : Started(c)}

\* Subscribe, lines 123-127: the caller cancels the context it passed to
\* Subscribe call s, or the context times out; no statement of Subscribe or
\* of its closure reads the context, so nothing else changes
CtxCancel(s) ==
    /\ backend = "memory"
    /\ ~crashed
    /\ calls[s].op = "subscribe"
    /\ s \notin DOMAIN ctxDone
    /\ ctxDone' = Put(ctxDone, s, Cardinality(StartedCalls))
    /\ UNCHANGED <<backend, calls, memVars, mqttVars, overlapped, matchVars,
                   amqpVars, natsVars, connected, redisSubs, ctorVars>>

\* the Memory broker used for its registry only: Subscribe, the handles and
\* Close, over one call more than the other behaviours have
MaxHandleCalls == 4

HandleCalls == 1..MaxHandleCalls

NextMemoryHandles ==
    \/ \E c \in HandleCalls, p \in Patterns : MemSubscribe(c, p)
    \/ \E c \in HandleCalls : MemSubscribeID(c)
    \/ \E c \in HandleCalls : MemSubscribeRegister(c)
    \/ \E c \in HandleCalls, s \in HandleCalls : MemUnsubscribe(c, s)
    \/ \E c \in HandleCalls : MemClose(c)
    \/ \E c \in HandleCalls : MemCloseClear(c)

InitMemoryHandles ==
    /\ backend = "memory"
    /\ calls = [c \in HandleCalls |-> NoCall]
    /\ InitFields
    /\ InitNoMatch

SpecMemoryHandles == InitMemoryHandles /\ [][NextMemoryHandles]_vars

\* the Memory broker with its payloads: Publish of any payload of one event,
\* Subscribe to one pattern matching it, and handlers that decode
PayloadEvents == {UserCreated}
PayloadPatterns == {UserStar}
PayloadFailures == {"none", "enc"}

NextMemoryPayload ==
    \/ \E c \in Calls, e \in PayloadEvents, f \in PayloadFailures,
          p \in Payloads : MemPublishPayload(c, e, f, p)
    \/ \E c \in Calls : MemPublishRLock(c)
    \/ \E c \in Calls : MemPublishRange(c)
    \/ \E c \in Calls : MemPublishReturn(c)
    \/ \E g \in goroutines, d \in Dests : MemDeliverDecoding(g, d)
    \/ \E c \in Calls, p \in PayloadPatterns : MemSubscribe(c, p)
    \/ \E c \in Calls : MemSubscribeID(c)
    \/ \E c \in Calls : MemSubscribeRegister(c)

SpecMemoryPayload == InitMemory /\ [][NextMemoryPayload]_vars

\* the Memory broker with the contexts of its Subscribe calls
NextMemoryCtx ==
    \/ NextMemory
    \/ \E s \in Calls : CtxCancel(s)

SpecMemoryCtx == InitMemory /\ [][NextMemoryCtx]_vars

(***************************************************************************)
(* MQTTBroker.  The wire is the set of topic filters the MQTT server holds *)
(* for this client: a successful client.Subscribe adds the topic, a        *)
(* successful client.Unsubscribe removes it, a failed call changes nothing.*)
(***************************************************************************)
\* another Subscribe or unsubscribe call of the MQTT broker is in progress
RegistryCallInProgress ==
    \E d \in Calls :
        /\ InProgress(d)
        /\ calls[d].op \in {"mqttSubscribe", "mqttUnsubscribe"}

\* b.subscriptions[topic], false for a missing key
IsSubscribed(subs, topic) ==
    IF topic \in DOMAIN subs THEN subs[topic] ELSE FALSE

\* b.subscriptions[topic] = true
SetSubscribed(subs, topic) ==
    [t \in DOMAIN subs \cup {topic} |-> IF t = topic THEN TRUE ELSE subs[t]]

\* delete(b.subscriptions, topic)
DeleteSubscribed(subs, topic) == [t \in DOMAIN subs \ {topic} |-> subs[t]]

\* Subscribe, lines 578-579: translate the event, allocate the handler ID
MqttSubscribe(c, event) ==
    /\ backend = "mqtt"
    /\ CanStart(c)
    /\ mqttNextID' = mqttNextID + 1
    /\ calls' = [calls EXCEPT ![c] =
           [NoCall EXCEPT !.op = "mqttSubscribe", !.pc = "lock",
                          !.arg = event, !.topic = convertTopic(event),
                          !.id = mqttNextID + 1,
                          !.n0 = LenOf(mqttHandlers, convertTopic(event)),
                          !.afterClose = CloseReturned]]
    /\ overlapped' = (overlapped \/ RegistryCallInProgress)
    /\ UNCHANGED <<backend, memVars, mqttHandlers, subscriptions, mqttMu,
                   wire, wireUnsubFailed, matchVars, extVars>>

\* Subscribe, lines 581-593: under b.mu.Lock(), mark the topic when this is
\* its first handler and register the handler
MqttSubscribeRegister(c) ==
    /\ At(c, "mqttSubscribe", "lock")
    /\ CanLock(mqttMu)
    /\ LET topic == calls[c].topic
           isFirst == ~IsSubscribed(subscriptions, topic)
       IN /\ subscriptions' = IF isFirst
                              THEN SetSubscribed(subscriptions, topic)
                              ELSE subscriptions
          /\ mqttHandlers' = Register(mqttHandlers, topic, calls[c].id, c)
          /\ calls' = [calls EXCEPT ![c] =
                 IF isFirst
                 THEN [@ EXCEPT !.pc = "wire", !.flag = TRUE]
                 ELSE Return(@, "nil")]
    /\ UNCHANGED <<backend, memVars, mqttNextID, mqttMu, wire,
                   wireUnsubFailed, overlapped, matchVars, extVars>>

\* Subscribe, lines 595-605: b.client.Subscribe, which succeeds or fails, and
\* fails when the client is disconnected
MqttSubscribeWire(c, ok) ==
    /\ At(c, "mqttSubscribe", "wire")
    /\ ok => connected
    /\ wire' = IF ok THEN wire \cup {calls[c].topic} ELSE wire
    /\ calls' = [calls EXCEPT ![c] =
           IF ok
           THEN Return([@ EXCEPT !.wsub = @ + 1], "nil")
           ELSE [@ EXCEPT !.wsub = @ + 1, !.pc = "rollback"]]
    /\ UNCHANGED <<backend, memVars, mqttHandlers, subscriptions, mqttNextID,
                   mqttMu, wireUnsubFailed, overlapped, matchVars, extVars>>

\* a removal that forgets the topic's open-flag
MqttRemoveHandlerKeepFlag(registry, subs, topic, id) ==
    LET removed == DeleteID(registry, topic, id)
        last == LenOf(removed, topic) = 0
    IN [handlers |-> IF last THEN DeletePattern(removed, topic) ELSE removed,
        subs |-> subs,
        last |-> last]

\* lines 607-612 and 622-628: delete the handler and, when the topic has no
\* handler left, the topic's entry and its open-flag
MqttRemoveHandler(registry, subs, topic, id) ==
    LET removed == DeleteID(registry, topic, id)
        last == LenOf(removed, topic) = 0
    IN [handlers |-> IF last THEN DeletePattern(removed, topic) ELSE removed,
        subs |-> IF last THEN DeleteSubscribed(subs, topic) ELSE subs,
        last |-> last]

\* a failed Subscribe that returns the error and leaves its handler behind
MqttSubscribeRollbackSkipped(c) ==
    /\ At(c, "mqttSubscribe", "rollback")
    /\ CanLock(mqttMu)
    /\ calls' = [calls EXCEPT ![c] = Return(@, "wireErr")]
    /\ UNCHANGED <<backend, memVars, mqttVars, overlapped, matchVars, extVars>>

\* Subscribe, lines 605-617: the wire subscribe failed; under b.mu.Lock(),
\* take the handler out again and return the error
MqttSubscribeRollback(c) ==
    /\ At(c, "mqttSubscribe", "rollback")
    /\ CanLock(mqttMu)
    /\ LET out == MqttRemoveHandler(mqttHandlers, subscriptions,
                                    calls[c].topic, calls[c].id)
       IN /\ mqttHandlers' = out.handlers
          /\ subscriptions' = out.subs
    /\ calls' = [calls EXCEPT ![c] = Return(@, "wireErr")]
    /\ UNCHANGED <<backend, memVars, mqttNextID, mqttMu, wire,
                   wireUnsubFailed, overlapped, matchVars, extVars>>

\* an unsubscribe closure that keeps the last handler of a topic registered
\* until the wire unsubscribe is through
MqttUnsubscribeWireFirst(c, s) ==
    /\ backend = "mqtt"
    /\ CanStart(c)
    /\ HasHandle(s, "mqttSubscribe")
    /\ CanLock(mqttMu)
    /\ LET out == MqttRemoveHandler(mqttHandlers, subscriptions,
                                    calls[s].topic, calls[s].id)
           rec == [NoCall EXCEPT !.op = "mqttUnsubscribe", !.target = s,
                                 !.arg = calls[s].arg,
                                 !.topic = calls[s].topic, !.id = calls[s].id,
                                 !.n0 = LenOf(mqttHandlers, calls[s].topic),
                                 !.flag = out.last]
       IN /\ mqttHandlers' = IF out.last THEN mqttHandlers ELSE out.handlers
          /\ subscriptions' = IF out.last THEN subscriptions ELSE out.subs
          /\ calls' = [calls EXCEPT ![c] =
                 IF out.last
                 THEN [rec EXCEPT !.pc = "wire"]
                 ELSE Return(rec, "nil")]
    /\ overlapped' = (overlapped \/ RegistryCallInProgress)
    /\ UNCHANGED <<backend, memVars, mqttNextID, mqttMu, wire,
                   wireUnsubFailed, matchVars, extVars>>

\* unsubscribe closure of Subscribe call s, lines 620-630: under b.mu.Lock(),
\* remove the handler and decide whether the wire subscription goes too
MqttUnsubscribe(c, s) ==
    /\ backend = "mqtt"
    /\ CanStart(c)
    /\ HasHandle(s, "mqttSubscribe")
    /\ CanLock(mqttMu)
    /\ LET out == MqttRemoveHandler(mqttHandlers, subscriptions,
                                    calls[s].topic, calls[s].id)
           rec == [NoCall EXCEPT !.op = "mqttUnsubscribe", !.target = s,
                                 !.arg = calls[s].arg,
                                 !.topic = calls[s].topic, !.id = calls[s].id,
                                 !.n0 = LenOf(mqttHandlers, calls[s].topic),
                                 !.flag = out.last]
       IN /\ mqttHandlers' = out.handlers
          /\ subscriptions' = out.subs
          /\ calls' = [calls EXCEPT ![c] =
                 IF out.last
                 THEN [rec EXCEPT !.pc = "wire"]
                 ELSE Return(rec, "nil")]
    /\ overlapped' = (overlapped \/ RegistryCallInProgress)
    /\ UNCHANGED <<backend, memVars, mqttNextID, mqttMu, wire,
                   wireUnsubFailed, matchVars, extVars>>

\* unsubscribe closure, lines 632-638: b.client.Unsubscribe, which succeeds or
\* fails, and fails when the client is disconnected; its error is the
\* closure's result
MqttUnsubscribeWire(c, ok) ==
    /\ At(c, "mqttUnsubscribe", "wire")
    /\ ok => connected
    /\ wire' = IF ok THEN wire \ {calls[c].topic} ELSE wire
    /\ wireUnsubFailed' = (wireUnsubFailed \/ ~ok)
    /\ calls' = [calls EXCEPT ![c] =
           Return([@ EXCEPT !.wunsub = @ + 1], IF ok THEN "nil" ELSE "wireErr")]
    /\ UNCHANGED <<backend, memVars, mqttHandlers, subscriptions, mqttNextID,
                   mqttMu, overlapped, matchVars, extVars>>

\* route, lines 513-515: an inbound message on a topic the server holds a
\* matching filter for reaches OnPublishReceived; b.mu.RLock()
MqttRoute(c, topic) ==
    /\ backend = "mqtt"
    /\ CanStart(c)
    /\ \E filter \in wire : matchTopic(filter, topic)
    /\ CanRLock(mqttMu)
    /\ mqttMu' = RLock(mqttMu, c)
    /\ calls' = [calls EXCEPT ![c] =
           [NoCall EXCEPT !.op = "route", !.pc = "range", !.topic = topic,
                          !.snap = mqttHandlers]]
    /\ UNCHANGED <<backend, memVars, mqttHandlers, subscriptions, mqttNextID,
                   wire, wireUnsubFailed, overlapped, matchVars, extVars>>

\* route, lines 517-525: one iteration of the range over b.handlers; the
\* handlers of a matching pattern are invoked in place
MqttRouteRange(c) ==
    /\ At(c, "route", "range")
    /\ \E pattern \in DOMAIN mqttHandlers \ calls[c].visited :
          LET hit == matchTopic(pattern, calls[c].topic)
              new == IF hit
                     THEN {<<pattern, x>> : x \in DOMAIN mqttHandlers[pattern]}
                     ELSE {}
          IN calls' = [calls EXCEPT ![c].visited = @ \cup {pattern},
                                    ![c].dispatched = @ \cup new]
    /\ UNCHANGED <<backend, memVars, mqttVars, overlapped, matchVars, extVars>>

\* route, line 515 (deferred): the range is over, b.mu.RUnlock()
MqttRouteReturn(c) ==
    /\ At(c, "route", "range")
    /\ DOMAIN mqttHandlers \ calls[c].visited = {}
    /\ mqttMu' = RUnlock(mqttMu, c)
    /\ calls' = [calls EXCEPT ![c] = Return(@, "nil")]
    /\ UNCHANGED <<backend, memVars, mqttHandlers, subscriptions, mqttNextID,
                   wire, wireUnsubFailed, overlapped, matchVars, extVars>>

Topics == {convertTopic(e) : e \in Events}

NextMQTT ==
    \/ \E c \in Calls, p \in Patterns : MqttSubscribe(c, p)
    \/ \E c \in Calls : MqttSubscribeRegister(c)
    \/ \E c \in Calls, ok \in BOOLEAN : MqttSubscribeWire(c, ok)
    \/ \E c \in Calls : MqttSubscribeRollback(c)
    \/ \E c \in Calls, s \in Calls : MqttUnsubscribe(c, s)
    \/ \E c \in Calls, ok \in BOOLEAN : MqttUnsubscribeWire(c, ok)
    \/ \E c \in Calls, t \in Topics : MqttRoute(c, t)
    \/ \E c \in Calls : MqttRouteRange(c)
    \/ \E c \in Calls : MqttRouteReturn(c)

InitMQTT == backend = "mqtt" /\ InitCommon

SpecMQTT == InitMQTT /\ [][NextMQTT]_vars

\* Close, lines 647-649: b.client.Disconnect; the session is clean, so the
\* server forgets the client's topic filters.  The registry is not touched.
MqttClose(c) ==
    /\ backend = "mqtt"
    /\ CanStart(c)
    /\ connected' = FALSE
    /\ wire' = {}
    /\ calls' = [calls EXCEPT ![c] =
           Return([NoCall EXCEPT !.op = "mqttClose",
                                 !.afterClose = CloseReturned], "nil")]
    /\ UNCHANGED <<backend, memVars, mqttHandlers, subscriptions, mqttNextID,
                   mqttMu, wireUnsubFailed, overlapped, matchVars, amqpVars,
                   natsVars, ctxDone, redisSubs, ctorVars>>

\* the MQTT broker with its Close
NextMQTTClose ==
    \/ NextMQTT
    \/ \E c \in Calls : MqttClose(c)

SpecMQTTClose == InitMQTT /\ [][NextMQTTClose]_vars

\* either broker
InitBrokers == backend \in {"memory", "mqtt"} /\ InitCommon

NextBrokers == NextMemory \/ NextMQTT

SpecBrokers == InitBrokers /\ [][NextBrokers]_vars

(***************************************************************************)
(* The matcher as a program: the inputs are drawn, matchEvent is applied.  *)
(***************************************************************************)
MatchCall ==
    /\ backend = "match"
    /\ mResult = <<>>
    /\ mResult' = <<matchEvent(mPattern, mEvent)>>
    /\ UNCHANGED <<backend, calls, memVars, mqttVars, overlapped, mPattern,
                   mEvent, extVars>>

InitMatch ==
    /\ backend = "match"
    /\ InitExt
    /\ calls = [c \in Calls |-> NoCall]
    /\ handlers = <<>>
    /\ nextID = 0
    /\ isClosed = FALSE
    /\ mu = Unlocked
    /\ goroutines = {}
    /\ crashed = FALSE
    /\ mqttHandlers = <<>>
    /\ subscriptions = <<>>
    /\ mqttNextID = 0
    /\ mqttMu = Unlocked
    /\ wire = {}
    /\ wireUnsubFailed = FALSE
    /\ overlapped = FALSE
    /\ mPattern \in MatcherInputs
    /\ mEvent \in MatcherInputs
    /\ mResult = <<>>

NextMatch == MatchCall

SpecMatch == InitMatch /\ [][NextMatch]_vars

(***************************************************************************)
(* AMQPBroker.  Every subscription owns a channel ch, the Go channel       *)
(* deliveries the client library feeds and closes together with ch, a      *)
(* WaitGroup wg and one consumption goroutine.                             *)
(***************************************************************************)
\* the topic exchange routes a message to the queues whose binding key
\* matches its routing key ("*" one word, "#" the rest)
amqpRoutes(binding, key) == matchEvent(binding, key)

\* Publish, lines 139-157: serialize, then publish on pubCh under b.mu; fail
\* is what the caller's context and payload make fail
AmqpPublish(c, event, fail) ==
    /\ backend = "amqp"
    /\ CanStart(c)
    /\ LET rec == [NoCall EXCEPT !.op = "amqpPublish", !.arg = event]
           sent == fail = "none" /\ pubCh = "open"
       IN /\ calls' = [calls EXCEPT ![c] =
                 IF fail = "enc" THEN Return(rec, "encErr")
                 ELSE IF pubCh # "open" THEN Return(rec, "chErr")
                 ELSE IF fail = "ctx" THEN Return(rec, "ctxErr")
                 ELSE Return(rec, "nil")]
          /\ deliveries' =
                 [s \in DOMAIN deliveries |->
                     IF sent /\ ch[s] = "open"
                             /\ amqpRoutes(calls[s].arg, event)
                     THEN deliveries[s] + 1
                     ELSE deliveries[s]]
    /\ UNCHANGED <<backend, memVars, mqttVars, overlapped, matchVars, conn,
                   pubCh, ch, wg, task, natsVars, ctxDone, connected,
                   redisSubs, ctorVars>>

\* Subscribe, lines 178-243: open a channel, declare and bind the queue, start
\* consuming, wg.Go the consumption goroutine and return the handle; ok is
\* whether the server accepts the setup
AmqpSubscribe(c, event, ok) ==
    /\ backend = "amqp"
    /\ CanStart(c)
    /\ LET rec == [NoCall EXCEPT !.op = "amqpSubscribe", !.arg = event]
       IN IF ok /\ conn = "open"
          THEN /\ ch' = Put(ch, c, "open")
               /\ deliveries' = Put(deliveries, c, 0)
               /\ wg' = Put(wg, c, 1)
               /\ task' = Put(task, c, "range")
               /\ calls' = [calls EXCEPT ![c] = Return(rec, "nil")]
          ELSE /\ calls' = [calls EXCEPT ![c] = Return(rec, "setupErr")]
               /\ UNCHANGED <<ch, deliveries, wg, task>>
    /\ UNCHANGED <<backend, memVars, mqttVars, overlapped, matchVars, conn,
                   pubCh, natsVars, ctxDone, connected, redisSubs, ctorVars>>

\* consumption goroutine, line 232: `range deliveries` receives a delivery
AmqpTaskReceive(s) ==
    /\ backend = "amqp"
    /\ ~crashed
    /\ s \in DOMAIN task
    /\ task[s] = "range"
    /\ ch[s] = "open"
    /\ deliveries[s] > 0
    /\ deliveries' = [deliveries EXCEPT ![s] = @ - 1]
    /\ task' = [task EXCEPT ![s] = "call"]
    /\ UNCHANGED <<backend, calls, memVars, mqttVars, overlapped, matchVars,
                   conn, pubCh, ch, wg, natsVars, ctxDone, connected,
                   redisSubs, ctorVars>>

\* consumption goroutine, line 233: the handler is invoked
AmqpTaskInvoke(s) ==
    /\ backend = "amqp"
    /\ ~crashed
    /\ s \in DOMAIN task
    /\ task[s] = "call"
    /\ task' = [task EXCEPT ![s] = "handler"]
    /\ UNCHANGED <<backend, calls, memVars, mqttVars, overlapped, matchVars,
                   conn, pubCh, ch, deliveries, wg, natsVars, ctxDone,
                   connected, redisSubs, ctorVars>>

\* consumption goroutine, lines 233-235: the handler returns, or panics with
\* nothing to recover it
AmqpTaskHandlerReturn(s) ==
    /\ backend = "amqp"
    /\ ~crashed
    /\ s \in DOMAIN task
    /\ task[s] = "handler"
    /\ \E outcome \in {"returned", "panicked"} :
          /\ task' = [task EXCEPT ![s] = "range"]
          /\ crashed' = (outcome = "panicked")
    /\ UNCHANGED <<backend, calls, handlers, nextID, isClosed, mu, goroutines,
                   mqttVars, overlapped, matchVars, conn, pubCh, ch,
                   deliveries, wg, natsVars, ctxDone, connected, redisSubs,
                   ctorVars>>

\* consumption goroutine, lines 230-236: deliveries is closed, the range ends
\* and the deferred wg.Done() of the function runs
AmqpTaskRangeEnd(s) ==
    /\ backend = "amqp"
    /\ ~crashed
    /\ s \in DOMAIN task
    /\ task[s] = "range"
    /\ ch[s] = "closed"
    /\ wg' = [wg EXCEPT ![s] = @ - 1]
    /\ task' = [task EXCEPT ![s] = "returned"]
    /\ UNCHANGED <<backend, calls, memVars, mqttVars, overlapped, matchVars,
                   conn, pubCh, ch, deliveries, natsVars, ctxDone, connected,
                   redisSubs, ctorVars>>

\* wg.Go, line 229: after the function has returned, WaitGroup.Go calls
\* wg.Done() itself; a counter below zero panics
AmqpTaskGoDone(s) ==
    /\ backend = "amqp"
    /\ ~crashed
    /\ s \in DOMAIN task
    /\ task[s] = "returned"
    /\ wg' = [wg EXCEPT ![s] = @ - 1]
    /\ task' = [task EXCEPT ![s] = "exited"]
    /\ crashed' = (wg[s] - 1 < 0)
    /\ UNCHANGED <<backend, calls, handlers, nextID, isClosed, mu, goroutines,
                   mqttVars, overlapped, matchVars, conn, pubCh, ch,
                   deliveries, natsVars, ctxDone, connected, redisSubs,
                   ctorVars>>

\* unsubscribe handle of Subscribe call s, line 242: ch.Close(), which also
\* closes deliveries and drops what is buffered
AmqpUnsubscribe(c, s) ==
    /\ backend = "amqp"
    /\ CanStart(c)
    /\ HasHandle(s, "amqpSubscribe")
    /\ ch' = [ch EXCEPT ![s] = "closed"]
    /\ deliveries' = [deliveries EXCEPT ![s] = 0]
    /\ calls' = [calls EXCEPT ![c] =
           [NoCall EXCEPT !.op = "amqpUnsubscribe", !.pc = "wait",
                          !.target = s, !.arg = calls[s].arg,
                          !.res = IF ch[s] = "open" THEN "nil" ELSE "chErr"]]
    /\ UNCHANGED <<backend, memVars, mqttVars, overlapped, matchVars, conn,
                   pubCh, wg, task, natsVars, ctxDone, connected, redisSubs,
                   ctorVars>>

\* an unsubscribe handle that does not wait for the consumption goroutine
AmqpUnsubscribeNoWait(c) ==
    /\ At(c, "amqpUnsubscribe", "wait")
    /\ calls' = [calls EXCEPT ![c].pc = "done"]
    /\ UNCHANGED <<backend, memVars, mqttVars, overlapped, matchVars,
                   extVars>>

\* unsubscribe handle, line 240: the deferred wg.Wait() returns when the
\* counter is zero; the handle returns the result of ch.Close()
AmqpUnsubscribeWait(c) ==
    /\ At(c, "amqpUnsubscribe", "wait")
    /\ wg[calls[c].target] = 0
    /\ calls' = [calls EXCEPT ![c].pc = "done"]
    /\ UNCHANGED <<backend, memVars, mqttVars, overlapped, matchVars,
                   extVars>>

\* a Close that returns the publish channel's error without closing the
\* connection
AmqpCloseReturnEarly(c, pubErr) ==
    /\ backend = "amqp"
    /\ CanStart(c)
    /\ pubCh' = "closed"
    /\ LET err == pubErr \/ pubCh = "closed"
           rec == [NoCall EXCEPT !.op = "amqpClose", !.pubErr = err]
       IN calls' = [calls EXCEPT ![c] =
              IF err THEN Return(rec, "pubChErr")
              ELSE [rec EXCEPT !.pc = "conn"]]
    /\ UNCHANGED <<backend, memVars, mqttVars, overlapped, matchVars, conn,
                   ch, deliveries, wg, task, natsVars, ctxDone, connected,
                   redisSubs, ctorVars>>

\* Close, lines 253-254: b.pubCh.Close(); pubErr is whether the server makes
\* it fail, and closing a closed channel fails
AmqpClose(c, pubErr) ==
    /\ backend = "amqp"
    /\ CanStart(c)
    /\ pubCh' = "closed"
    /\ calls' = [calls EXCEPT ![c] =
           [NoCall EXCEPT !.op = "amqpClose", !.pc = "conn",
                          !.pubErr = (pubErr \/ pubCh = "closed")]]
    /\ UNCHANGED <<backend, memVars, mqttVars, overlapped, matchVars, conn,
                   ch, deliveries, wg, task, natsVars, ctxDone, connected,
                   redisSubs, ctorVars>>

\* Close, lines 255-261: b.conn.Close() on either path, which closes every
\* channel of the connection; the publish channel's error wins over connErr
AmqpCloseConn(c, connErr) ==
    /\ At(c, "amqpClose", "conn")
    /\ conn' = "closed"
    /\ ch' = [s \in DOMAIN ch |-> "closed"]
    /\ deliveries' = [s \in DOMAIN deliveries |-> 0]
    /\ calls' = [calls EXCEPT ![c] =
           Return([@ EXCEPT !.connTried = TRUE,
                            !.connErr = (connErr \/ conn = "closed")],
                  IF calls[c].pubErr THEN "pubChErr"
                  ELSE IF connErr \/ conn = "closed" THEN "connErr"
                  ELSE "nil")]
    /\ UNCHANGED <<backend, memVars, mqttVars, overlapped, matchVars, pubCh,
                   wg, task, natsVars, ctxDone, connected, redisSubs, ctorVars>>

NextAMQP ==
    \/ \E c \in Calls, e \in Events, f \in PublishFailures :
          AmqpPublish(c, e, f)
    \/ \E c \in Calls, p \in Patterns, ok \in BOOLEAN : AmqpSubscribe(c, p, ok)
    \/ \E s \in Calls : AmqpTaskReceive(s)
    \/ \E s \in Calls : AmqpTaskInvoke(s)
    \/ \E s \in Calls : AmqpTaskHandlerReturn(s)
    \/ \E s \in Calls : AmqpTaskRangeEnd(s)
    \/ \E s \in Calls : AmqpTaskGoDone(s)
    \/ \E c \in Calls, s \in Calls : AmqpUnsubscribe(c, s)
    \/ \E c \in Calls : AmqpUnsubscribeWait(c)
    \/ \E c \in Calls, pubErr \in BOOLEAN : AmqpClose(c, pubErr)
    \/ \E c \in Calls, connErr \in BOOLEAN : AmqpCloseConn(c, connErr)

InitAMQP == backend = "amqp" /\ InitCommon

SpecAMQP == InitAMQP /\ [][NextAMQP]_vars

(***************************************************************************)
(* NATSBroker.  The connection keeps, for every subscription, the messages *)
(* received for it and not yet handed to its callback (pending).  Drain    *)
(* only starts draining and returns: the subscriptions are drained in the  *)
(* background and the connection closes itself when that is over.  Close   *)
(* of the connection ends it at once and throws away what is pending.      *)
(***************************************************************************)
Gt == ">"

\* convertSubject, lines 276-278
convertSubject(event) == ReplaceAll(event, Hash, Gt)

\* the server's subject rule: "*" is one token, ">" is one or more tokens
\* at the end
RECURSIVE matchSubjectParts(_, _)
matchSubjectParts(subject, event) ==
    IF Len(subject) = 0 THEN Len(event) = 0
    ELSE IF Len(event) = 0 THEN FALSE
    ELSE IF subject[1] = <<Gt>> THEN Len(subject) = 1
    ELSE IF subject[1] = <<Star>> \/ subject[1] = event[1]
         THEN matchSubjectParts(Tail2(subject), Tail2(event))
    ELSE FALSE

matchSubject(subject, event) ==
    matchSubjectParts(Split(subject, Dot), Split(event, Dot))

\* the messages pending on the subscriptions S
RECURSIVE PendingOf(_)
PendingOf(S) ==
    IF S = {} THEN 0
    ELSE LET s == CHOOSE x \in S : TRUE
         IN natsSubs[s].pending + PendingOf(S \ {s})

\* Publish, lines 212-225: serialize and conn.Publish; the message comes back
\* from the server to every matching subscription of the connection
NatsPublish(c, event, fail) ==
    /\ backend = "nats"
    /\ CanStart(c)
    /\ LET rec == [NoCall EXCEPT !.op = "natsPublish", !.arg = event]
           sent == fail # "enc" /\ natsConn = "connected"
       IN /\ calls' = [calls EXCEPT ![c] =
                 IF fail = "enc" THEN Return(rec, "encErr")
                 ELSE IF natsConn = "closed" THEN Return(rec, "connErr")
                 ELSE Return(rec, "nil")]
          /\ natsSubs' =
                 [s \in DOMAIN natsSubs |->
                     IF sent /\ natsSubs[s].active
                             /\ matchSubject(natsSubs[s].subject, event)
                     THEN [natsSubs[s] EXCEPT !.pending = @ + 1]
                     ELSE natsSubs[s]]
    /\ UNCHANGED <<backend, memVars, mqttVars, overlapped, matchVars,
                   amqpVars, natsConn, natsDropped, ctxDone, connected,
                   redisSubs, ctorVars>>

\* Subscribe, lines 237-257: conn.Subscribe on the converted subject, refused
\* by a connection that is draining or closed
NatsSubscribe(c, event) ==
    /\ backend = "nats"
    /\ CanStart(c)
    /\ LET rec == [NoCall EXCEPT !.op = "natsSubscribe", !.arg = event]
       IN IF natsConn = "connected"
          THEN /\ natsSubs' = Put(natsSubs, c,
                      [subject |-> convertSubject(event), pending |-> 0,
                       active |-> TRUE])
               /\ calls' = [calls EXCEPT ![c] = Return(rec, "nil")]
          ELSE /\ calls' = [calls EXCEPT ![c] = Return(rec, "connErr")]
               /\ UNCHANGED natsSubs
    /\ UNCHANGED <<backend, memVars, mqttVars, overlapped, matchVars,
                   amqpVars, natsConn, natsDropped, ctxDone, connected,
                   redisSubs, ctorVars>>

\* the subscription's callback, lines 244-248: the connection hands one
\* pending message to the handler
NatsDeliver(s) ==
    /\ backend = "nats"
    /\ ~crashed
    /\ natsConn # "closed"
    /\ s \in DOMAIN natsSubs
    /\ natsSubs[s].active
    /\ natsSubs[s].pending > 0
    /\ natsSubs' = [natsSubs EXCEPT ![s].pending = @ - 1]
    /\ UNCHANGED <<backend, calls, memVars, mqttVars, overlapped, matchVars,
                   amqpVars, natsConn, natsDropped, ctxDone, connected,
                   redisSubs, ctorVars>>

\* unsubscribe handle of Subscribe call s, lines 254-256: sub.Unsubscribe()
NatsUnsubscribe(c, s) ==
    /\ backend = "nats"
    /\ CanStart(c)
    /\ HasHandle(s, "natsSubscribe")
    /\ LET rec == [NoCall EXCEPT !.op = "natsUnsubscribe", !.target = s,
                                 !.arg = calls[s].arg]
           valid == natsConn # "closed" /\ natsSubs[s].active
       IN /\ calls' = [calls EXCEPT ![c] =
                 Return(rec, IF valid THEN "nil" ELSE "subErr")]
          /\ natsSubs' = IF valid
                         THEN [natsSubs EXCEPT ![s].active = FALSE,
                                               ![s].pending = 0]
                         ELSE natsSubs
    /\ UNCHANGED <<backend, memVars, mqttVars, overlapped, matchVars,
                   amqpVars, natsConn, natsDropped, ctxDone, connected,
                   redisSubs, ctorVars>>

\* Close, lines 264-266: b.conn.Drain() puts the connection into the
\* draining state and returns; it fails on a closed connection
NatsClose(c) ==
    /\ backend = "nats"
    /\ CanStart(c)
    /\ LET rec == [NoCall EXCEPT !.op = "natsClose"]
       IN calls' = [calls EXCEPT ![c] =
              IF natsConn = "closed" THEN Return(rec, "connErr")
              ELSE [rec EXCEPT !.pc = "close"]]
    /\ natsConn' = IF natsConn = "closed" THEN "closed" ELSE "draining"
    /\ UNCHANGED <<backend, memVars, mqttVars, overlapped, matchVars,
                   amqpVars, natsSubs, natsDropped, ctxDone, connected,
                   redisSubs, ctorVars>>

\* Close, lines 268-270: b.conn.Close() closes the connection now: every
\* subscription is closed and its pending messages are thrown away
NatsCloseConn(c) ==
    /\ At(c, "natsClose", "close")
    /\ natsConn' = "closed"
    /\ natsDropped' = natsDropped + PendingOf(DOMAIN natsSubs)
    /\ natsSubs' = [s \in DOMAIN natsSubs |->
                       [natsSubs[s] EXCEPT !.active = FALSE, !.pending = 0]]
    /\ calls' = [calls EXCEPT ![c] = Return(@, "nil")]
    /\ UNCHANGED <<backend, memVars, mqttVars, overlapped, matchVars,
                   amqpVars, ctxDone, connected, redisSubs, ctorVars>>

\* the connection's background drain, started by Drain: when nothing is
\* pending any more the connection closes itself
NatsDrainComplete ==
    /\ backend = "nats"
    /\ ~crashed
    /\ natsConn = "draining"
    /\ PendingOf(DOMAIN natsSubs) = 0
    /\ natsConn' = "closed"
    /\ natsSubs' = [s \in DOMAIN natsSubs |->
                       [natsSubs[s] EXCEPT !.active = FALSE]]
    /\ UNCHANGED <<backend, calls, memVars, mqttVars, overlapped, matchVars,
                   amqpVars, natsDropped, ctxDone, connected, redisSubs,
                   ctorVars>>

\* what can make a NATS Publish fail: the payload (the context is not used)
NatsPublishFailures == {"none", "enc"}

NextNATS ==
    \/ \E c \in Calls, e \in Events, f \in NatsPublishFailures :
          NatsPublish(c, e, f)
    \/ \E c \in Calls, p \in Patterns : NatsSubscribe(c, p)
    \/ \E s \in Calls : NatsDeliver(s)
    \/ \E c \in Calls, s \in Calls : NatsUnsubscribe(c, s)
    \/ \E c \in Calls : NatsClose(c)
    \/ \E c \in Calls : NatsCloseConn(c)
    \/ NatsDrainComplete

InitNATS == backend = "nats" /\ InitCommon

SpecNATS == InitNATS /\ [][NextNATS]_vars

(***************************************************************************)
(* The MQTT translator and matcher as a program: a canonical pattern and a *)
(* canonical event name are drawn, both are translated by convertTopic and *)
(* matchTopic is applied to the translations.                              *)
(***************************************************************************)
\* characters of the enumerated inputs: an ordinary character, the canonical
\* separator and wildcards, and the MQTT separator and single-level wildcard
TranslatorAlphabet == {"a", Dot, Star, Hash, Slash, Plus}

RECURSIVE StringsOver(_, _)
StringsOver(alphabet, n) ==
    IF n = 0
    THEN {<<>>}
    ELSE LET shorter == StringsOver(alphabet, n - 1)
         IN shorter \cup {Append(s, c) : s \in shorter, c \in alphabet}

TranslatorInputs == StringsOver(TranslatorAlphabet, MaxLen)

TranslateCall ==
    /\ backend = "translate"
    /\ mResult = <<>>
    /\ mResult' = <<matchTopic(convertTopic(mPattern), convertTopic(mEvent))>>
    /\ UNCHANGED <<backend, calls, memVars, mqttVars, overlapped, mPattern,
                   mEvent, extVars>>

InitTranslate ==
    /\ backend = "translate"
    /\ calls = [c \in Calls |-> NoCall]
    /\ InitFields
    /\ mPattern \in TranslatorInputs
    /\ mEvent \in TranslatorInputs
    /\ mResult = <<>>

NextTranslate == TranslateCall

SpecTranslate == InitTranslate /\ [][NextTranslate]_vars

(***************************************************************************)
(* The NATS translator as a program: a canonical pattern is drawn and      *)
(* convertSubject is applied to it.                                        *)
(***************************************************************************)
ConvertCall ==
    /\ backend = "convert"
    /\ mResult = <<>>
    /\ mResult' = <<convertSubject(mPattern)>>
    /\ UNCHANGED <<backend, calls, memVars, mqttVars, overlapped, mPattern,
                   mEvent, extVars>>

InitConvert ==
    /\ backend = "convert"
    /\ calls = [c \in Calls |-> NoCall]
    /\ InitFields
    /\ mPattern \in MatcherInputs
    /\ mEvent = <<>>
    /\ mResult = <<>>

NextConvert == ConvertCall

SpecConvert == InitConvert /\ [][NextConvert]_vars

(***************************************************************************)
(* The matcher on whole tokens: patterns and events are up to MaxLen       *)
(* one-character tokens joined by dots, so that a pattern can carry tokens *)
(* after a "#".                                                            *)
(***************************************************************************)
TokenAlphabet == {"a", "b", Star, Hash}

RECURSIVE TokenStrings(_)
TokenStrings(n) ==
    IF n = 1
    THEN {<<t>> : t \in TokenAlphabet}
    ELSE LET shorter == TokenStrings(n - 1)
         IN shorter \cup {s \o <<Dot, t>> : s \in shorter, t \in TokenAlphabet}

TokenInputs == TokenStrings(MaxLen)

InitMatchTokens ==
    /\ backend = "match"
    /\ calls = [c \in Calls |-> NoCall]
    /\ InitFields
    /\ mPattern \in TokenInputs
    /\ mEvent \in TokenInputs
    /\ mResult = <<>>

SpecMatchTokens == InitMatchTokens /\ [][NextMatch]_vars

(***************************************************************************)
(* MQTT routing with handlers that may panic.  route calls the handlers in *)
(* place and has no recover of its own: a panic leaves the two range loops,*)
(* runs the deferred RUnlock and goes on into the client library's         *)
(* goroutine that called OnPublishReceived, where it ends the process      *)
(* unless the library recovers.                                            *)
(***************************************************************************)
\* route, lines 517-525: an iteration over a matching pattern in which handler
\* x panics; the handlers of the pattern ranged over before x have run
MqttRoutePanic(c) ==
    /\ At(c, "route", "range")
    /\ \E pattern \in DOMAIN mqttHandlers \ calls[c].visited :
          /\ matchTopic(pattern, calls[c].topic)
          /\ \E x \in DOMAIN mqttHandlers[pattern] :
             \E before \in SUBSET (DOMAIN mqttHandlers[pattern] \ {x}) :
                calls' = [calls EXCEPT ![c] =
                    Return([@ EXCEPT
                        !.visited = @ \cup {pattern},
                        !.dispatched =
                            @ \cup {<<pattern, y>> : y \in before \cup {x}}],
                      "panicked")]
    /\ mqttMu' = RUnlock(mqttMu, c)
    /\ crashed' \in BOOLEAN
    /\ UNCHANGED <<backend, handlers, nextID, isClosed, mu, goroutines,
                   mqttHandlers, subscriptions, mqttNextID, wire,
                   wireUnsubFailed, overlapped, matchVars, extVars>>

NextMQTTPanic ==
    \/ NextMQTT
    \/ \E c \in Calls : MqttRoutePanic(c)

SpecMQTTPanic == InitMQTT /\ [][NextMQTTPanic]_vars

(***************************************************************************)
(* AMQPBroker, the publish channel step by step.  A Publish call is at     *)
(* "lock" before b.mu.Lock() and at "publishing" while it holds b.mu and   *)
(* b.pubCh.PublishWithContext runs; a Close call is at "pubClose" while    *)
(* b.pubCh.Close() runs.  Close does not take b.mu.                        *)
(***************************************************************************)
\* b.mu is held by the Publish call that is inside PublishWithContext
AmqpMuHeld == \E c \in Calls : calls[c].op = "amqpPublish"
                                /\ calls[c].pc = "publishing"

\* the calls that are operating on b.pubCh
PubChUsers ==
    {c \in Calls :
        \/ calls[c].op = "amqpPublish" /\ calls[c].pc = "publishing"
        \/ calls[c].op = "amqpClose" /\ calls[c].pc = "pubClose"}

\* Publish, lines 139-143: json.Marshal(payload)
AmqpPublishMarshal(c, event, encFails) ==
    /\ backend = "amqp"
    /\ CanStart(c)
    /\ LET rec == [NoCall EXCEPT !.op = "amqpPublish", !.arg = event]
       IN calls' = [calls EXCEPT ![c] =
              IF encFails THEN Return(rec, "encErr")
              ELSE [rec EXCEPT !.pc = "lock"]]
    /\ UNCHANGED <<backend, memVars, mqttVars, overlapped, matchVars, extVars>>

\* Publish, line 145: b.mu.Lock(); PublishWithContext begins
AmqpPublishLock(c) ==
    /\ At(c, "amqpPublish", "lock")
    /\ ~AmqpMuHeld
    /\ calls' = [calls EXCEPT ![c].pc = "publishing"]
    /\ UNCHANGED <<backend, memVars, mqttVars, overlapped, matchVars, extVars>>

\* Publish, lines 146-157: PublishWithContext ends, the deferred b.mu.Unlock()
\* runs and Publish returns; ctxFails is whether the caller's context ends
\* the publish
AmqpPublishSend(c, ctxFails) ==
    /\ At(c, "amqpPublish", "publishing")
    /\ LET sent == ~ctxFails /\ pubCh = "open"
       IN /\ calls' = [calls EXCEPT ![c] =
                 Return(@, IF pubCh # "open" THEN "chErr"
                           ELSE IF ctxFails THEN "ctxErr"
                           ELSE "nil")]
          /\ deliveries' =
                 [s \in DOMAIN deliveries |->
                     IF sent /\ ch[s] = "open"
                             /\ amqpRoutes(calls[s].arg, calls[c].arg)
                     THEN deliveries[s] + 1
                     ELSE deliveries[s]]
    /\ UNCHANGED <<backend, memVars, mqttVars, overlapped, matchVars, conn,
                   pubCh, ch, wg, task, natsVars, ctxDone, connected,
                   redisSubs, ctorVars>>

\* Close, lines 253-254: b.pubCh.Close() begins, without b.mu
AmqpCloseBegin(c) ==
    /\ backend = "amqp"
    /\ CanStart(c)
    /\ calls' = [calls EXCEPT ![c] =
           [NoCall EXCEPT !.op = "amqpClose", !.pc = "pubClose"]]
    /\ UNCHANGED <<backend, memVars, mqttVars, overlapped, matchVars, extVars>>

\* Close, line 254: b.pubCh.Close() ends; pubErr is whether the server makes
\* it fail, and closing a closed channel fails
AmqpClosePubCh(c, pubErr) ==
    /\ At(c, "amqpClose", "pubClose")
    /\ pubCh' = "closed"
    /\ calls' = [calls EXCEPT ![c].pc = "conn",
                              ![c].pubErr = (pubErr \/ pubCh = "closed")]
    /\ UNCHANGED <<backend, memVars, mqttVars, overlapped, matchVars, conn,
                   ch, deliveries, wg, task, natsVars, ctxDone, connected,
                   redisSubs, ctorVars>>

NextAMQPChannel ==
    \/ \E c \in Calls, e \in Events, encFails \in BOOLEAN :
          AmqpPublishMarshal(c, e, encFails)
    \/ \E c \in Calls : AmqpPublishLock(c)
    \/ \E c \in Calls, ctxFails \in BOOLEAN : AmqpPublishSend(c, ctxFails)
    \/ \E c \in Calls, p \in Patterns, ok \in BOOLEAN : AmqpSubscribe(c, p, ok)
    \/ \E s \in Calls : AmqpTaskReceive(s)
    \/ \E s \in Calls : AmqpTaskInvoke(s)
    \/ \E s \in Calls : AmqpTaskHandlerReturn(s)
    \/ \E s \in Calls : AmqpTaskRangeEnd(s)
    \/ \E s \in Calls : AmqpTaskGoDone(s)
    \/ \E c \in Calls : AmqpCloseBegin(c)
    \/ \E c \in Calls, pubErr \in BOOLEAN : AmqpClosePubCh(c, pubErr)
    \/ \E c \in Calls, connErr \in BOOLEAN : AmqpCloseConn(c, connErr)

SpecAMQPChannel == InitAMQP /\ [][NextAMQPChannel]_vars

(***************************************************************************)
(* RedisBroker.  client.PSubscribe hands back a PubSub value and no error: *)
(* whether the server took the pattern subscription is not reported to the *)
(* caller.  Every subscription owns its sub, a WaitGroup and one           *)
(* consumption goroutine that ranges over sub.Channel() until sub is       *)
(* closed.                                                                 *)
(***************************************************************************)
\* Subscribe, line 42: strings.ReplaceAll(event, "#", "*")
redisPattern(event) == ReplaceAll(event, Hash, Star)

\* Subscribe, lines 42-57: PSubscribe, wg.Go of the consumption goroutine and
\* the return of the handle with a nil error; ok is whether the pattern
\* subscription could be established (connection up, context live)
RedisSubscribe(c, event, ok) ==
    /\ backend = "redis"
    /\ CanStart(c)
    /\ calls' = [calls EXCEPT ![c] =
           Return([NoCall EXCEPT !.op = "redisSubscribe", !.arg = event,
                                 !.topic = redisPattern(event)],
                  "nil")]
    /\ redisSubs' = Put(redisSubs, c,
           [established |-> ok, closed |-> FALSE, task |-> "running"])
    /\ UNCHANGED <<backend, memVars, mqttVars, overlapped, matchVars,
                   amqpVars, natsVars, ctxDone, connected, ctorVars>>

\* the handle, line 56: sub.Close(), which closes sub.Channel(); closing a
\* closed sub fails
RedisUnsubscribe(c, s) ==
    /\ backend = "redis"
    /\ CanStart(c)
    /\ s \in DOMAIN redisSubs
    /\ calls' = [calls EXCEPT ![c] =
           [NoCall EXCEPT !.op = "redisUnsubscribe", !.pc = "wait",
                          !.target = s,
                          !.res = IF redisSubs[s].closed
                                  THEN "closedErr" ELSE "nil"]]
    /\ redisSubs' = [redisSubs EXCEPT ![s].closed = TRUE]
    /\ UNCHANGED <<backend, memVars, mqttVars, overlapped, matchVars,
                   amqpVars, natsVars, ctxDone, connected, ctorVars>>

\* consumption goroutine, lines 46-52: the range over sub.Channel() ends when
\* the channel is closed, and wg.Go marks the WaitGroup done
RedisTaskEnd(s) ==
    /\ backend = "redis"
    /\ ~crashed
    /\ s \in DOMAIN redisSubs
    /\ redisSubs[s].closed
    /\ redisSubs[s].task = "running"
    /\ redisSubs' = [redisSubs EXCEPT ![s].task = "done"]
    /\ UNCHANGED <<backend, calls, memVars, mqttVars, overlapped, matchVars,
                   amqpVars, natsVars, ctxDone, connected, ctorVars>>

\* the handle, line 55 (deferred): wg.Wait() returns when the goroutine is over
RedisUnsubscribeWait(c) ==
    /\ At(c, "redisUnsubscribe", "wait")
    /\ redisSubs[calls[c].target].task = "done"
    /\ calls' = [calls EXCEPT ![c].pc = "done"]
    /\ UNCHANGED <<backend, memVars, mqttVars, overlapped, matchVars, extVars>>

NextRedis ==
    \/ \E c \in Calls, p \in Patterns, ok \in BOOLEAN : RedisSubscribe(c, p, ok)
    \/ \E c \in Calls, s \in Calls : RedisUnsubscribe(c, s)
    \/ \E s \in Calls : RedisTaskEnd(s)
    \/ \E c \in Calls : RedisUnsubscribeWait(c)

InitRedis == backend = "redis" /\ InitCommon

SpecRedis == InitRedis /\ [][NextRedis]_vars

(***************************************************************************)
(* NewNATSBrokerWith: the options it is given and the settings it hands to *)
(* nats.Connect.  Durations are in seconds; urls is len(options.URLs).     *)
(***************************************************************************)
DefaultNATSMaxReconnects == -1
DefaultNATSReconnectWait == 2

NatsOptionValues ==
    [Name : {"", "svc"}, MaxReconnects : {-1, 0, 1, 2, 5},
     ReconnectWait : {0, 1, 5}, Timeout : {0, 3}, urls : {0, 1, 2}]

\* NewNATSBrokerWith, lines 124-182: the client options appended to opts
\* (name and timeout are 0-or-1-element lists: the option is appended or
\* not) and the number of URLs joined for nats.Connect
natsConnectSettings(o) ==
    [name |-> IF o.Name # "" THEN <<o.Name>> ELSE <<>>,
     maxReconnects |-> IF o.MaxReconnects # 0
                       THEN o.MaxReconnects
                       ELSE DefaultNATSMaxReconnects,
     reconnectWait |-> IF o.ReconnectWait # 0
                       THEN o.ReconnectWait
                       ELSE DefaultNATSReconnectWait,
     timeout |-> IF o.Timeout # 0 THEN <<o.Timeout>> ELSE <<>>,
     urls |-> IF o.urls = 0 THEN 1 ELSE o.urls]

NewNATSBrokerWith ==
    /\ backend = "natsNew"
    /\ built = <<>>
    /\ built' = <<natsConnectSettings(options)>>
    /\ UNCHANGED <<backend, calls, memVars, mqttVars, overlapped, matchVars,
                   amqpVars, natsVars, ctxDone, connected, redisSubs, options>>

InitNATSNew ==
    /\ backend = "natsNew"
    /\ calls = [c \in Calls |-> NoCall]
    /\ InitTransports
    /\ InitRegistries
    /\ InitNoMatch
    /\ options \in NatsOptionValues
    /\ built = <<>>

NextNATSNew == NewNATSBrokerWith

SpecNATSNew == InitNATSNew /\ [][NextNATSNew]_vars

(***************************************************************************)
(* NewMQTTBrokerWith: the options it is given, the broker it builds, and   *)
(* the quality of service that broker's Publish and Subscribe put on the   *)
(* wire.  urls is len(options.URLs); pubQoS and subQoS are the levels of   *)
(* the publish and subscribe packets sent so far (0-or-1-element lists).   *)
(***************************************************************************)
DefaultMQTTQoS == 1
DefaultMQTTKeepAlive == 30

MqttOptionValues ==
    [QoS : {0, 1, 2}, KeepAlive : {0, 10, 30}, urls : {0, 1, 2},
     Username : {"", "user"}]

\* NewMQTTBrokerWith, lines 434-488: broker.qos and the client configuration
mqttBrokerBuilt(o) ==
    [qos |-> IF o.QoS = 0 /\ o.urls > 0 THEN DefaultMQTTQoS ELSE o.QoS,
     keepAlive |-> IF o.KeepAlive = 0 THEN DefaultMQTTKeepAlive
                   ELSE o.KeepAlive,
     urls |-> o.urls,
     username |-> IF o.Username # "" THEN <<o.Username>> ELSE <<>>,
     pubQoS |-> <<>>,
     subQoS |-> <<>>]

NewMQTTBrokerWith ==
    /\ backend = "mqttNew"
    /\ built = <<>>
    /\ built' = <<mqttBrokerBuilt(options)>>
    /\ UNCHANGED <<backend, calls, memVars, mqttVars, overlapped, matchVars,
                   amqpVars, natsVars, ctxDone, connected, redisSubs, options>>

\* Publish, lines 548-555: the publish packet carries QoS: b.qos
MqttPublishQoS ==
    /\ backend = "mqttNew"
    /\ built # <<>>
    /\ built[1].pubQoS = <<>>
    /\ built' = <<[built[1] EXCEPT !.pubQoS = <<built[1].qos>>]>>
    /\ UNCHANGED <<backend, calls, memVars, mqttVars, overlapped, matchVars,
                   amqpVars, natsVars, ctxDone, connected, redisSubs, options>>

\* Subscribe, lines 596-603: the subscribe packet carries QoS: b.qos
MqttSubscribeQoS ==
    /\ backend = "mqttNew"
    /\ built # <<>>
    /\ built[1].subQoS = <<>>
    /\ built' = <<[built[1] EXCEPT !.subQoS = <<built[1].qos>>]>>
    /\ UNCHANGED <<backend, calls, memVars, mqttVars, overlapped, matchVars,
                   amqpVars, natsVars, ctxDone, connected, redisSubs, options>>

InitMQTTNew ==
    /\ backend = "mqttNew"
    /\ calls = [c \in Calls |-> NoCall]
    /\ InitTransports
    /\ InitRegistries
    /\ InitNoMatch
    /\ options \in MqttOptionValues
    /\ built = <<>>

NextMQTTNew == NewMQTTBrokerWith \/ MqttPublishQoS \/ MqttSubscribeQoS

SpecMQTTNew == InitMQTTNew /\ [][NextMQTTNew]_vars

(***************************************************************************)
(* MQTT routing with handlers that call back into the broker.  route calls *)
(* the handlers in place while it holds b.mu.RLock(), so a call a handler  *)
(* makes runs on route's goroutine, inside the read lock, and route goes   *)
(* on only when that call has returned.                                    *)
(***************************************************************************)
\* the calls made by the handler that route call c is running
NestedCalls(c) == {n \in Calls : calls[n].from = c}

\* route, lines 517-525: the iteration over a matching pattern reaches a
\* handler that is about to use the broker
MqttRouteHandlerCalls(c) ==
    /\ At(c, "route", "range")
    /\ \E pattern \in DOMAIN mqttHandlers \ calls[c].visited :
          /\ matchTopic(pattern, calls[c].topic)
          /\ calls' = [calls EXCEPT
                 ![c].pc = "handler",
                 ![c].visited = @ \cup {pattern},
                 ![c].dispatched =
                     @ \cup {<<pattern, x>> : x \in DOMAIN mqttHandlers[pattern]}]
    /\ UNCHANGED <<backend, memVars, mqttVars, overlapped, matchVars, extVars>>

\* Subscribe called by the handler route call c is running, line 579
MqttHandlerSubscribe(n, c, event) ==
    /\ backend = "mqtt"
    /\ CanStart(n)
    /\ At(c, "route", "handler")
    /\ \A d \in NestedCalls(c) : calls[d].pc = "done"
    /\ mqttNextID' = mqttNextID + 1
    /\ calls' = [calls EXCEPT ![n] =
           [NoCall EXCEPT !.op = "mqttSubscribe", !.pc = "lock",
                          !.arg = event, !.topic = convertTopic(event),
                          !.id = mqttNextID + 1,
                          !.n0 = LenOf(mqttHandlers, convertTopic(event)),
                          !.afterClose = CloseReturned,
                          !.from = c]]
    /\ overlapped' = (overlapped \/ RegistryCallInProgress)
    /\ UNCHANGED <<backend, memVars, mqttHandlers, subscriptions, mqttMu,
                   wire, wireUnsubFailed, matchVars, extVars>>

\* the unsubscribe closure of Subscribe call s is invoked, by the handler
\* route call c is running or (c = 0) from outside any handler; line 621 is
\* next
MqttUnsubscribeBegin(n, s, c) ==
    /\ backend = "mqtt"
    /\ CanStart(n)
    /\ HasHandle(s, "mqttSubscribe")
    /\ IF c = 0 THEN TRUE
       ELSE /\ At(c, "route", "handler")
            /\ \A d \in NestedCalls(c) : calls[d].pc = "done"
    /\ calls' = [calls EXCEPT ![n] =
           [NoCall EXCEPT !.op = "mqttUnsubscribe", !.pc = "lock",
                          !.target = s, !.arg = calls[s].arg,
                          !.topic = calls[s].topic, !.id = calls[s].id,
                          !.from = c]]
    /\ overlapped' = (overlapped \/ RegistryCallInProgress)
    /\ UNCHANGED <<backend, memVars, mqttVars, matchVars, extVars>>

\* unsubscribe closure, lines 621-630: b.mu.Lock(), remove the handler and
\* decide whether the wire subscription goes too
MqttUnsubscribeLocked(n) ==
    /\ At(n, "mqttUnsubscribe", "lock")
    /\ CanLock(mqttMu)
    /\ LET out == MqttRemoveHandler(mqttHandlers, subscriptions,
                                    calls[n].topic, calls[n].id)
           rec == [calls[n] EXCEPT
                      !.n0 = LenOf(mqttHandlers, calls[n].topic),
                      !.flag = out.last]
       IN /\ mqttHandlers' = out.handlers
          /\ subscriptions' = out.subs
          /\ calls' = [calls EXCEPT ![n] =
                 IF out.last
                 THEN [rec EXCEPT !.pc = "wire"]
                 ELSE Return(rec, "nil")]
    /\ UNCHANGED <<backend, memVars, mqttNextID, mqttMu, wire,
                   wireUnsubFailed, overlapped, matchVars, extVars>>

\* route, line 520: the handler returns once every call it made has returned
MqttRouteHandlerReturn(c) ==
    /\ At(c, "route", "handler")
    /\ \A d \in NestedCalls(c) : calls[d].pc = "done"
    /\ calls' = [calls EXCEPT ![c].pc = "range"]
    /\ UNCHANGED <<backend, memVars, mqttVars, overlapped, matchVars, extVars>>

NextMQTTReentrant ==
    \/ NextMQTT
    \/ \E c \in Calls : MqttRouteHandlerCalls(c)
    \/ \E n \in Calls, c \in Calls, p \in Patterns :
          MqttHandlerSubscribe(n, c, p)
    \/ \E n \in Calls, s \in Calls, c \in {0} \cup Calls :
          MqttUnsubscribeBegin(n, s, c)
    \/ \E n \in Calls : MqttUnsubscribeLocked(n)
    \/ \E c \in Calls : MqttRouteHandlerReturn(c)

\* every goroutine that can take a step is scheduled
SpecMQTTReentrant ==
    InitMQTT /\ [][NextMQTTReentrant]_vars /\ WF_vars(NextMQTTReentrant)

(***************************************************************************)
(* AMQP and Redis subscriptions whose handler invokes the subscription's   *)
(* own unsubscribe handle.  The handler runs on the consumption goroutine, *)
(* so the handle's ch.Close() / sub.Close() and its deferred wg.Wait() run *)
(* on that goroutine too, and the handler returns only when the handle     *)
(* has returned.                                                           *)
(***************************************************************************)
\* the calls made by the handler the consumption goroutine of Subscribe call
\* s is running have returned
HandlerCallsReturned(s) ==
    \A d \in Calls : calls[d].from = s => calls[d].pc = "done"

\* amqp.go line 233: the handler calls the unsubscribe handle of its own
\* subscription; line 242, ch.Close(), runs and wg.Wait() is next
AmqpHandlerUnsubscribe(n, s) ==
    /\ backend = "amqp"
    /\ CanStart(n)
    /\ s \in DOMAIN task
    /\ task[s] = "handler"
    /\ HandlerCallsReturned(s)
    /\ ch' = [ch EXCEPT ![s] = "closed"]
    /\ deliveries' = [deliveries EXCEPT ![s] = 0]
    /\ calls' = [calls EXCEPT ![n] =
           [NoCall EXCEPT !.op = "amqpUnsubscribe", !.pc = "wait",
                          !.target = s, !.arg = calls[s].arg,
                          !.res = IF ch[s] = "open" THEN "nil" ELSE "chErr",
                          !.from = s]]
    /\ UNCHANGED <<backend, memVars, mqttVars, overlapped, matchVars, conn,
                   pubCh, wg, task, natsVars, ctxDone, connected, redisSubs,
                   ctorVars>>

\* amqp.go lines 233-235: the handler returns (or panics) once the calls it
\* made have returned
AmqpTaskHandlerReturnAfterCalls(s) ==
    /\ HandlerCallsReturned(s)
    /\ AmqpTaskHandlerReturn(s)

\* redis.go lines 47-48: a message for the subscription arrives on
\* sub.Channel() and the handler is invoked
RedisTaskInvoke(s) ==
    /\ backend = "redis"
    /\ ~crashed
    /\ s \in DOMAIN redisSubs
    /\ redisSubs[s].established
    /\ ~redisSubs[s].closed
    /\ redisSubs[s].task = "running"
    /\ redisSubs' = [redisSubs EXCEPT ![s].task = "handler"]
    /\ UNCHANGED <<backend, calls, memVars, mqttVars, overlapped, matchVars,
                   amqpVars, natsVars, ctxDone, connected, ctorVars>>

\* redis.go line 48: the handler calls the unsubscribe handle of its own
\* subscription; line 56, sub.Close(), runs and wg.Wait() is next
RedisHandlerUnsubscribe(n, s) ==
    /\ backend = "redis"
    /\ CanStart(n)
    /\ s \in DOMAIN redisSubs
    /\ redisSubs[s].task = "handler"
    /\ HandlerCallsReturned(s)
    /\ calls' = [calls EXCEPT ![n] =
           [NoCall EXCEPT !.op = "redisUnsubscribe", !.pc = "wait",
                          !.target = s,
                          !.res = IF redisSubs[s].closed
                                  THEN "closedErr" ELSE "nil",
                          !.from = s]]
    /\ redisSubs' = [redisSubs EXCEPT ![s].closed = TRUE]
    /\ UNCHANGED <<backend, memVars, mqttVars, overlapped, matchVars,
                   amqpVars, natsVars, ctxDone, connected, ctorVars>>

\* redis.go lines 48-50: the handler returns once the calls it made have
\* returned
RedisTaskHandlerReturn(s) ==
    /\ backend = "redis"
    /\ ~crashed
    /\ s \in DOMAIN redisSubs
    /\ redisSubs[s].task = "handler"
    /\ HandlerCallsReturned(s)
    /\ redisSubs' = [redisSubs EXCEPT ![s].task = "running"]
    /\ UNCHANGED <<backend, calls, memVars, mqttVars, overlapped, matchVars,
                   amqpVars, natsVars, ctxDone, connected, ctorVars>>

NextHandlerUnsubscribe ==
    \/ \E c \in Calls, e \in Events, f \in PublishFailures :
          AmqpPublish(c, e, f)
    \/ \E c \in Calls, p \in Patterns, ok \in BOOLEAN : AmqpSubscribe(c, p, ok)
    \/ \E s \in Calls : AmqpTaskReceive(s)
    \/ \E s \in Calls : AmqpTaskInvoke(s)
    \/ \E n \in Calls, s \in Calls : AmqpHandlerUnsubscribe(n, s)
    \/ \E s \in Calls : AmqpTaskHandlerReturnAfterCalls(s)
    \/ \E s \in Calls : AmqpTaskRangeEnd(s)
    \/ \E s \in Calls : AmqpTaskGoDone(s)
    \/ \E c \in Calls, s \in Calls : AmqpUnsubscribe(c, s)
    \/ \E c \in Calls : AmqpUnsubscribeWait(c)
    \/ \E c \in Calls, p \in Patterns, ok \in BOOLEAN : RedisSubscribe(c, p, ok)
    \/ \E s \in Calls : RedisTaskInvoke(s)
    \/ \E n \in Calls, s \in Calls : RedisHandlerUnsubscribe(n, s)
    \/ \E s \in Calls : RedisTaskHandlerReturn(s)
    \/ \E c \in Calls, s \in Calls : RedisUnsubscribe(c, s)
    \/ \E s \in Calls : RedisTaskEnd(s)
    \/ \E c \in Calls : RedisUnsubscribeWait(c)

InitHandlerUnsubscribe == backend \in {"amqp", "redis"} /\ InitCommon

\* every goroutine that can take a step is scheduled
SpecHandlerUnsubscribe ==
    /\ InitHandlerUnsubscribe
    /\ [][NextHandlerUnsubscribe]_vars
    /\ WF_vars(NextHandlerUnsubscribe)
    /\ \A c \in Calls :
          WF_vars(AmqpUnsubscribeWait(c) \/ RedisUnsubscribeWait(c))
    /\ \A s \in Calls :
          WF_vars(AmqpTaskRangeEnd(s) \/ AmqpTaskGoDone(s) \/ RedisTaskEnd(s))

(***************************************************************************)
(* NATSBroker.Close with a Drain that can fail on a connection that is not *)
(* closed (for instance while it is reconnecting).  Close then returns the *)
(* error at once; what a failing Drain has done to the connection is the   *)
(* client library's business, so both outcomes are possible here.          *)
(***************************************************************************)
\* Close, lines 264-266: b.conn.Drain(); drainErr is whether it fails, and it
\* fails on a closed connection
NatsCloseDrain(c, drainErr) ==
    /\ backend = "nats"
    /\ CanStart(c)
    /\ LET rec == [NoCall EXCEPT !.op = "natsClose"]
           fails == drainErr \/ natsConn = "closed"
       IN /\ calls' = [calls EXCEPT ![c] =
                 IF fails THEN Return(rec, "drainErr")
                 ELSE [rec EXCEPT !.pc = "close"]]
          /\ IF fails
             THEN natsConn' \in {natsConn, "closed"}
             ELSE natsConn' = "draining"
    /\ UNCHANGED <<backend, memVars, mqttVars, overlapped, matchVars,
                   amqpVars, natsSubs, natsDropped, ctxDone, connected,
                   redisSubs, ctorVars>>

NextNATSClose ==
    \/ \E c \in Calls, e \in Events, f \in NatsPublishFailures :
          NatsPublish(c, e, f)
    \/ \E c \in Calls, p \in Patterns : NatsSubscribe(c, p)
    \/ \E s \in Calls : NatsDeliver(s)
    \/ \E c \in Calls, s \in Calls : NatsUnsubscribe(c, s)
    \/ \E c \in Calls, drainErr \in BOOLEAN : NatsCloseDrain(c, drainErr)
    \/ \E c \in Calls : NatsCloseConn(c)
    \/ NatsDrainComplete

SpecNATSClose == InitNATS /\ [][NextNATSClose]_vars

(***************************************************************************)
(* Properties.                                                             *)
(***************************************************************************)
IsDone(c, op) == calls[c].op = op /\ calls[c].pc = "done"

\* the goroutines Publish call c spawned for one registry key
GoroutinesOf(c, pattern, id) ==
    {g \in goroutines : g.pub = c /\ g.pattern = pattern /\ g.id = id}

\* the registry keys whose pattern matches an event (Memory) or topic (MQTT)
MatchingKeys(registry, event) ==
    {k \in Keys(registry) : matchEvent(k[1], event)}
MatchingTopicKeys(registry, topic) ==
    {k \in Keys(registry) : matchTopic(k[1], topic)}

\* C1: a successful Memory Publish of user.created spawns exactly one delivery
\* goroutine, carrying the registered handler, for every handler registered
\* under user.* or user.created when it took the registry lock, none for a
\* handler under another pattern, and no goroutine for anything else; each
\* goroutine invokes its handler once.
C1_FanOutExactlyOnce ==
    \A c \in Calls :
        (IsDone(c, "publish") /\ calls[c].res = "nil"
            /\ calls[c].arg = UserCreated) =>
            /\ \A k \in Keys(calls[c].snap) :
                  /\ Cardinality(GoroutinesOf(c, k[1], k[2])) =
                        IF k[1] \in {UserStar, UserCreated} THEN 1 ELSE 0
                  /\ \A g \in GoroutinesOf(c, k[1], k[2]) :
                        g.h = calls[c].snap[k[1]][k[2]]
            /\ \A g \in goroutines :
                  g.pub = c => <<g.pattern, g.id>> \in Keys(calls[c].snap)

\* one handler on user.*, one on user.created, one Publish of user.created,
\* and both handlers have run
C1_Witness ==
    \E c \in Calls :
        /\ IsDone(c, "publish") /\ calls[c].res = "nil"
        /\ calls[c].arg = UserCreated
        /\ UserStar \in DOMAIN calls[c].snap
        /\ UserCreated \in DOMAIN calls[c].snap
        /\ Cardinality({g \in goroutines : g.pub = c}) = 2
        /\ \A g \in goroutines : g.pub = c => g.st = "returned"

\* C2: with no Subscribe and no unsubscribe call in progress (and no wire
\* unsubscribe having failed), a topic's wire subscription is open iff the
\* topic has at least one registered handler.
C2_WireIffHandlers ==
    (~RegistryCallInProgress /\ ~wireUnsubFailed) =>
        \A t \in {convertTopic(p) : p \in Patterns} :
            (t \in wire) <=> (LenOf(mqttHandlers, t) > 0)

\* C3: a Memory Publish or Subscribe that starts after a Close has returned
\* returns ErrBrokerClosed, allocates and registers no handler and spawns no
\* delivery.
C3_ClosedRejects ==
    \A c \in Calls :
        (calls[c].op \in {"publish", "subscribe"} /\ calls[c].afterClose) =>
            /\ calls[c].pc = "done"
            /\ calls[c].res = "ErrBrokerClosed"
            /\ calls[c].id = 0
            /\ calls[c].dispatched = {}
            /\ \A g \in goroutines : g.pub # c
            /\ \A k \in Keys(handlers) : handlers[k[1]][k[2]] # c

\* after Close returned, a Publish and a Subscribe were both rejected
C3_Witness ==
    \E c, d \in Calls :
        /\ IsDone(c, "publish") /\ calls[c].afterClose
        /\ IsDone(d, "subscribe") /\ calls[d].afterClose
        /\ calls[c].res = "ErrBrokerClosed"
        /\ calls[d].res = "ErrBrokerClosed"

\* C4: while a Memory Publish ranges over the registry, the registry is the
\* one it found when it took the read lock; when it returns nil it has
\* dispatched to exactly the handlers matching in that snapshot, and when it
\* returns an error it has dispatched to none.
C4_ConsistentSnapshot ==
    \A c \in Calls :
        calls[c].op = "publish" =>
            /\ calls[c].pc = "range" =>
                  /\ handlers = calls[c].snap
                  /\ calls[c].dispatched \subseteq
                        MatchingKeys(calls[c].snap, calls[c].arg)
            /\ calls[c].pc = "done" =>
                  calls[c].dispatched =
                      IF calls[c].res = "nil"
                      THEN MatchingKeys(calls[c].snap, calls[c].arg)
                      ELSE {}

\* a Publish is in the middle of its range, having dispatched, while a Close
\* has set the flag and waits for the lock
C4_Witness ==
    \E c, d \in Calls :
        /\ calls[c].op = "publish" /\ calls[c].pc = "range"
        /\ calls[c].dispatched # {}
        /\ calls[d].op = "close" /\ calls[d].pc = "lock"

\* the step in which call c runs the removal of an unsubscribe closure
MemUnsubscribeStep(c) ==
    calls[c].op = "idle" /\ calls'[c].op = "unsubscribe"
MqttUnsubscribeStep(c) ==
    calls[c].op = "idle" /\ calls'[c].op = "mqttUnsubscribe"

\* what a removal step may change of a registry: the one key goes, every
\* other key stays and keeps its handler
FrameOf(before, after, key) ==
    /\ Keys(after) = Keys(before) \ {key}
    /\ \A k \in Keys(after) : after[k[1]][k[2]] = before[k[1]][k[2]]

\* a handler stays registered until its own handle is invoked (or, for the
\* Memory broker, Close is called)
StaysRegistered ==
    \A s \in Calls :
        /\ (/\ HasHandle(s, "subscribe")
            /\ \A u \in Calls :
                  /\ calls[u].op # "close"
                  /\ ~(calls[u].op = "unsubscribe" /\ calls[u].target = s)) =>
               /\ <<calls[s].arg, calls[s].id>> \in Keys(handlers)
               /\ \A e \in Events :
                     matchEvent(calls[s].arg, e) =>
                         <<calls[s].arg, calls[s].id>>
                             \in MatchingKeys(handlers, e)
        /\ (/\ HasHandle(s, "mqttSubscribe")
            /\ \A u \in Calls :
                  ~(calls[u].op = "mqttUnsubscribe" /\ calls[u].target = s)) =>
               /\ <<calls[s].topic, calls[s].id>> \in Keys(mqttHandlers)
               /\ \A t \in Topics :
                     matchTopic(calls[s].topic, t) =>
                         <<calls[s].topic, calls[s].id>>
                             \in MatchingTopicKeys(mqttHandlers, t)

\* C5: the removal step of an unsubscribe handle takes exactly its own key out
\* of the registry (Memory and MQTT): every other handler, under the same or
\* any other pattern, keeps its entry, so it stays registered, and in the
\* dispatch set of every matching event, until its own handle is invoked.
C5_UnsubscribeRemovesOnlyItsHandler ==
    /\ []StaysRegistered
    /\ [][\A c \in Calls :
            /\ MemUnsubscribeStep(c) =>
                  FrameOf(handlers, handlers',
                          <<calls'[c].arg, calls'[c].id>>)
            /\ MqttUnsubscribeStep(c) =>
                  FrameOf(mqttHandlers, mqttHandlers',
                          <<calls'[c].topic, calls'[c].id>>)]_vars

\* two handlers under one pattern, the handle of the first was invoked, the
\* second is still registered
C5_Witness ==
    \E s1, s2, u \in Calls :
        /\ s1 # s2
        /\ calls[s1].op \in {"subscribe", "mqttSubscribe"}
        /\ calls[s2].op = calls[s1].op
        /\ calls[s1].arg = calls[s2].arg
        /\ calls[s1].res = "nil" /\ calls[s2].res = "nil"
        /\ calls[u].op \in {"unsubscribe", "mqttUnsubscribe"}
        /\ calls[u].pc = "done"
        /\ calls[u].target = s1
        /\ \/ <<calls[s2].arg, calls[s2].id>> \in Keys(handlers)
           \/ <<calls[s2].topic, calls[s2].id>> \in Keys(mqttHandlers)

\* the delivery goroutines that ended in a (recovered) panic
Panicked == {g \in goroutines : g.st = "panicked"}

\* C6: a panic inside a handler stays inside its delivery goroutine: the step
\* in which a handler panics leaves the process alive, the registry, the closed
\* flag and every call (so the result of the Publish) as they were, and every
\* other delivery of the broker as it was, still pending if it was pending;
\* the Publish a panicking delivery belongs to never returns an error.
C6_PanicIsolated ==
    /\ [](/\ ~crashed
          /\ \A g \in Panicked : calls[g.pub].res \in {"none", "nil"})
    /\ [][Panicked' # Panicked =>
            /\ ~crashed'
            /\ handlers' = handlers
            /\ isClosed' = isClosed
            /\ mu' = mu
            /\ calls' = calls
            /\ \E g \in goroutines :
                  /\ g.st = "pending"
                  /\ goroutines' \ {[g EXCEPT !.st = "panicked"]} =
                        goroutines \ {g}]_vars

\* one Publish returned nil, one of its handlers panicked and another one ran
\* to its end after that
C6_Witness ==
    \E g1, g2 \in goroutines :
        /\ g1.pub = g2.pub
        /\ g1.st = "panicked"
        /\ g2.st = "returned"
        /\ IsDone(g1.pub, "publish")
        /\ calls[g1.pub].res = "nil"
        /\ ~crashed

\* the tokens of a string: the stretches between its separators
SeparatorsOf(s) == {i \in 1..Len(s) : s[i] = Dot}
Tokens(s) ==
    LET seps == SeparatorsOf(s)
        \* position of the k-th separator; 0 and Len(s) + 1 close the ends
        sepAt(k) == IF k = 0 THEN 0
                    ELSE IF k > Cardinality(seps) THEN Len(s) + 1
                    ELSE CHOOSE i \in seps :
                             Cardinality({j \in seps : j < i}) = k - 1
    IN [k \in 1..(Cardinality(seps) + 1) |->
            SubSeq(s, sepAt(k - 1) + 1, sepAt(k) - 1)]

\* the recursive token rule of the canonical grammar
RECURSIVE TokenRule(_, _)
TokenRule(pattern, event) ==
    IF pattern = <<>> THEN event = <<>>
    ELSE IF event = <<>> THEN Head(pattern) = <<Hash>>
    ELSE IF Head(pattern) = <<Hash>> THEN TRUE
    ELSE IF Head(pattern) = <<Star>> \/ Head(pattern) = Head(event)
         THEN TokenRule(Tail(pattern), Tail(event))
    ELSE FALSE

\* C7: for every pattern and event, matchEvent returns what the recursive token
\* rule gives on their tokens (so the equal-strings fast path never differs
\* from it); user.*.created matches user.123.created and not
\* user.123.456.created, and logs.# matches logs and logs.error.db.
C7_MatcherIsTokenRule ==
    mResult # <<>> =>
        /\ mResult[1] = TokenRule(Tokens(mPattern), Tokens(mEvent))
        /\ (mPattern = mEvent) => mResult[1]
        /\ (mPattern = UserStarCreated /\ mEvent = User123Created) => mResult[1]
        /\ (mPattern = UserStarCreated /\ mEvent = User123456Created) =>
               ~mResult[1]
        /\ (mPattern = LogsHash /\ mEvent = Logs) => mResult[1]
        /\ (mPattern = LogsHash /\ mEvent = LogsErrorDb) => mResult[1]

\* matchEvent was applied to logs.# and logs
C7_Witness ==
    mResult = <<TRUE>> /\ mPattern = LogsHash /\ mEvent = Logs

\* some unsubscribe handle of the MQTT broker was invoked more than once
HandleReused ==
    \E c, d \in Calls :
        /\ c # d
        /\ calls[c].op = "mqttUnsubscribe"
        /\ calls[d].op = "mqttUnsubscribe"
        /\ calls[c].target = calls[d].target

\* C8: in a run of the MQTT broker whose Subscribe and unsubscribe calls never
\* overlap and whose handles are invoked at most once, a Subscribe issues one
\* wire subscribe when its topic had no handler at its start and none
\* otherwise, and never a wire unsubscribe; an unsubscribe issues one wire
\* unsubscribe when its handler was the topic's only one and none otherwise,
\* and never a wire subscribe.
C8_WireCallsRefCounted ==
    (~overlapped /\ ~HandleReused) =>
        \A c \in Calls :
            /\ IsDone(c, "mqttSubscribe") =>
                  /\ calls[c].wsub = IF calls[c].n0 = 0 THEN 1 ELSE 0
                  /\ calls[c].wunsub = 0
            /\ IsDone(c, "mqttUnsubscribe") =>
                  /\ calls[c].wunsub = IF calls[c].n0 = 1 THEN 1 ELSE 0
                  /\ calls[c].wsub = 0

\* Subscribe, unsubscribe to zero, Subscribe again on one topic, one after the
\* other: each Subscribe opened the wire subscription, the unsubscribe closed
\* it
C8_Witness ==
    /\ ~overlapped
    /\ \E s1, u, s2 \in Calls :
          /\ s1 < u /\ u < s2
          /\ IsDone(s1, "mqttSubscribe") /\ calls[s1].wsub = 1
          /\ IsDone(u, "mqttUnsubscribe") /\ calls[u].target = s1
          /\ calls[u].wunsub = 1
          /\ IsDone(s2, "mqttSubscribe") /\ calls[s2].topic = calls[s1].topic
          /\ calls[s2].n0 = 0 /\ calls[s2].wsub = 1

\* C9: an MQTT Subscribe whose wire subscribe failed returns that error; the
\* step in which it returns has taken its own handler out of the registry and,
\* when the topic is left without a handler, has removed the topic's handler
\* entry and its open-flag; its handler is never in the registry afterwards.
C9_FailedSubscribeRolledBack ==
    /\ [](\A c \in Calls :
            /\ (IsDone(c, "mqttSubscribe") /\ calls[c].res = "wireErr") =>
                  <<calls[c].topic, calls[c].id>> \notin Keys(mqttHandlers)
            /\ (IsDone(c, "mqttSubscribe") /\ calls[c].wsub = 1) =>
                  calls[c].res \in {"nil", "wireErr"})
    /\ [][\A c \in Calls :
            (calls[c].pc = "rollback" /\ calls'[c].pc = "done") =>
                /\ calls'[c].res = "wireErr"
                /\ <<calls[c].topic, calls[c].id>> \in Keys(mqttHandlers)
                /\ <<calls[c].topic, calls[c].id>> \notin Keys(mqttHandlers')
                /\ LenOf(mqttHandlers', calls[c].topic) = 0 =>
                      /\ calls[c].topic \notin DOMAIN mqttHandlers'
                      /\ calls[c].topic \notin DOMAIN subscriptions']_vars

\* a Subscribe failed on the wire and returned; its topic has neither a
\* handler entry nor an open-flag
C9_Witness ==
    \E c \in Calls :
        /\ IsDone(c, "mqttSubscribe")
        /\ calls[c].res = "wireErr"
        /\ calls[c].topic \notin DOMAIN mqttHandlers
        /\ calls[c].topic \notin DOMAIN subscriptions

\* the Subscribe calls that have allocated a handler ID
Allocated ==
    {c \in Calls : calls[c].op \in {"subscribe", "mqttSubscribe"}
                    /\ calls[c].id # 0}

\* C10: the handler IDs the Subscribe calls of one broker allocate are pairwise
\* distinct, also when the calls overlap, and every registry entry still holds
\* the handler of the Subscribe call that allocated its ID (no Subscribe has
\* overwritten another's entry).
C10_HandlerIDsUnique ==
    /\ \A c, d \in Allocated : c # d => calls[c].id # calls[d].id
    /\ \A k \in Keys(handlers) :
          /\ handlers[k[1]][k[2]] \in Allocated
          /\ calls[handlers[k[1]][k[2]]].id = k[2]
          /\ calls[handlers[k[1]][k[2]]].arg = k[1]
    /\ \A k \in Keys(mqttHandlers) :
          /\ mqttHandlers[k[1]][k[2]] \in Allocated
          /\ calls[mqttHandlers[k[1]][k[2]]].id = k[2]
          /\ calls[mqttHandlers[k[1]][k[2]]].topic = k[1]

\* two Subscribe calls on one pattern hold their IDs at the same time, before
\* either has registered
C10_Witness ==
    \E c, d \in Allocated :
        /\ c # d
        /\ calls[c].pc = "lock" /\ calls[d].pc = "lock"
        /\ calls[c].arg = calls[d].arg

\* the handle of AMQP subscription s has been invoked and has returned
AmqpUnsubscribed(s) ==
    \E c \in Calls : IsDone(c, "amqpUnsubscribe") /\ calls[c].target = s

\* the consumption goroutine of AMQP subscription s has left its function
AmqpTaskFinished(s) == task[s] \in {"returned", "exited"}

\* C11: in the AMQP broker, once the unsubscribe handle of a subscription has
\* returned, the consumption goroutine of that subscription has finished and
\* its handler is never invoked again.
C11_NoInvocationAfterUnsubscribe ==
    /\ [](\A s \in DOMAIN task : AmqpUnsubscribed(s) => AmqpTaskFinished(s))
    /\ [][\A s \in DOMAIN task :
             AmqpUnsubscribed(s) => task'[s] \notin {"call", "handler"}]_vars

\* a handle has returned and a later Publish of a matching event succeeded
C11_Witness ==
    \E s \in DOMAIN task, p \in Calls :
        /\ AmqpUnsubscribed(s)
        /\ IsDone(p, "amqpPublish")
        /\ calls[p].res = "nil"
        /\ amqpRoutes(calls[s].arg, calls[p].arg)
        /\ \E c \in Calls :
              IsDone(c, "amqpUnsubscribe") /\ calls[c].target = s /\ c < p

\* C12: AMQP Close always attempts to close the connection, whether or not
\* closing the publish channel failed, and returns the first error: the
\* publish channel's error when there is one, otherwise the result of closing
\* the connection.
C12_CloseAlwaysClosesConnection ==
    \A c \in Calls :
        IsDone(c, "amqpClose") =>
            /\ calls[c].connTried
            /\ conn = "closed"
            /\ calls[c].res = IF calls[c].pubErr THEN "pubChErr"
                              ELSE IF calls[c].connErr THEN "connErr"
                              ELSE "nil"

\* a Close whose publish channel close failed has returned that error, with
\* the connection closed
C12_Witness ==
    \E c \in Calls :
        /\ IsDone(c, "amqpClose")
        /\ calls[c].pubErr
        /\ calls[c].res = "pubChErr"
        /\ conn = "closed"

\* C13: NATS Close drains before it disconnects: every message pending when
\* Close is called is delivered to its handler before the connection is
\* closed, so closing the connection throws no pending message away.
C13_CloseDropsNoPending == natsDropped = 0

\* C14: in the MQTT broker, every Subscribe call made after Close has
\* returned returns an error and leaves no handler registered, whatever
\* handlers were registered before Close.
C14_SubscribeAfterCloseFails ==
    \A c \in Calls :
        (IsDone(c, "mqttSubscribe") /\ calls[c].afterClose) =>
            /\ calls[c].res # "nil"
            /\ <<calls[c].topic, calls[c].id>> \notin Keys(mqttHandlers)

\* the next step of Publish call c, whichever it is
MemPublishStep(c) ==
    MemPublishRLock(c) \/ MemPublishRange(c) \/ MemPublishReturn(c)

\* C15: Memory Publish never waits for handler execution: whatever the
\* handlers it dispatched are doing, a Publish in progress can take its next
\* step, and a Publish that has returned holds no lock, so that a handler
\* calling Publish, Subscribe or an unsubscribe handle on the same broker is
\* not blocked by the Publish that dispatched it.
C15_PublishNeverWaitsForHandlers ==
    \A c \in Calls :
        /\ (calls[c].op = "publish" /\ InProgress(c)) =>
               ENABLED MemPublishStep(c)
        /\ IsDone(c, "publish") => (c \notin mu.r /\ mu.w # c)

\* a Publish has returned while a handler it dispatched is still running, and
\* a Subscribe or unsubscribe call made after it has returned as well
C15_Witness ==
    \E c \in Calls, d \in Calls :
        /\ IsDone(c, "publish")
        /\ \E g \in goroutines : g.pub = c /\ g.st = "pending"
        /\ d > c
        /\ calls[d].op \in {"subscribe", "unsubscribe"}
        /\ calls[d].pc = "done"
        /\ calls[d].res = "nil"

\* C16: a subscription stops when its subscribing context ends: after the
\* context passed to Subscribe is cancelled or times out, the handler of that
\* subscription is not invoked for any Publish made later (Memory broker).
C16_StopsWhenContextEnds ==
    \A g \in goroutines :
        g.h \in DOMAIN ctxDone => g.pub <= ctxDone[g.h]

\* the handle of Memory Subscribe call s has been invoked before
MemUnsubscribedBefore(s) ==
    \E u \in DOMAIN calls : IsDone(u, "unsubscribe") /\ calls[u].target = s

\* C17: in the Memory broker the unsubscribe handle is idempotent: a second
\* or later invocation, whatever happened in between (other handlers
\* subscribed to the same pattern, the pattern entry deleted and re-created,
\* Close), returns nil and leaves the registry exactly as it was.
C17_UnsubscribeIdempotent ==
    [][\A c \in DOMAIN calls :
          (MemUnsubscribeStep(c) /\ MemUnsubscribedBefore(calls'[c].target)) =>
              /\ handlers' = handlers
              /\ calls'[c].pc = "done"
              /\ calls'[c].res = "nil"]_vars

\* a handle was invoked, another handler then subscribed to the same pattern
\* (re-creating the pattern entry), the handle was invoked again, and the
\* other handler is still registered
C17_Witness ==
    \E s, u, b, v \in DOMAIN calls :
        /\ HasHandle(s, "subscribe")
        /\ HasHandle(b, "subscribe")
        /\ calls[b].arg = calls[s].arg
        /\ IsDone(u, "unsubscribe") /\ calls[u].target = s
        /\ IsDone(v, "unsubscribe") /\ calls[v].target = s
        /\ s < u /\ u < b /\ b < v
        /\ <<calls[b].arg, calls[b].id>> \in Keys(handlers)

\* C18: the MQTT matcher preserves the canonical semantics under translation:
\* for every canonical pattern P and event name E over an alphabet holding
\* ".", "*", "#", "/", "+" and ordinary characters,
\* matchTopic(convertTopic(P), convertTopic(E)) equals matchEvent(P, E).
C18_TranslationPreservesMatching ==
    mResult # <<>> => mResult[1] = matchEvent(mPattern, mEvent)

\* the goroutines whose handler decoded its payload into the payload's type
Decoded == {g \in goroutines : g.dec.dest = "struct"}

\* json.Marshal writes all of the payload: its unexported fields are zero
FullyEncoded(payload) == payload.unexported = 0

C20_NilOnlyWithWireSubscription ==
    \A c \in Calls :
        (/\ IsDone(c, "mqttSubscribe")
         /\ calls[c].res = "nil"
         /\ \A u \in Calls : calls[u].op # "mqttUnsubscribe") =>
            calls[c].topic \in wire

\* C21: in the MQTT broker, when the unsubscribe that removes a topic's last
\* handler runs concurrently with a new Subscribe for the same topic, the
\* wire unsubscribe of the former never takes effect after the wire subscribe
\* of the latter: once both calls have returned successfully, the newly
\* registered handler's topic has an open wire subscription.
C21_UnsubscribeNeverUndoesNewSubscribe ==
    \A c \in Calls, u \in Calls :
        (/\ IsDone(c, "mqttSubscribe") /\ calls[c].res = "nil"
         /\ calls[c].wsub = 1
         /\ IsDone(u, "mqttUnsubscribe") /\ calls[u].res = "nil"
         /\ calls[u].wunsub = 1
         /\ calls[u].topic = calls[c].topic
         /\ calls[u].target # c
         /\ <<calls[c].topic, calls[c].id>> \in Keys(mqttHandlers)
         /\ ~RegistryCallInProgress) =>
            calls[c].topic \in wire

\* the handle of MQTT Subscribe call s has been invoked before and has run
\* its removal
MqttUnsubscribedBefore(s) ==
    \E u \in Calls : calls[u].op = "mqttUnsubscribe" /\ calls[u].target = s

\* C22: in the MQTT broker the unsubscribe handle is idempotent: invoking a
\* handle again after it has removed its handler changes no registry state
\* and issues no wire unsubscribe (the call is over after its locked
\* section), whether or not the topic currently has other handlers.
C22_MqttUnsubscribeIdempotent ==
    [][\A c \in Calls :
          (MqttUnsubscribeStep(c)
              /\ MqttUnsubscribedBefore(calls'[c].target)) =>
              /\ mqttHandlers' = mqttHandlers
              /\ subscriptions' = subscriptions
              /\ calls'[c].pc = "done"]_vars

\* the step in which call c gets the result of its wire unsubscribe
MqttUnsubscribeWireStep(c) ==
    /\ calls[c].op = "mqttUnsubscribe"
    /\ calls[c].pc = "wire"
    /\ calls'[c].pc = "done"

\* C23: in the MQTT broker, when the wire unsubscribe issued by an
\* unsubscribe handle fails, the handle returns that error and the local
\* registry is still cleaned up: the handler is gone from the moment the
\* handle has run its locked section, the topic's handler entry and open-flag
\* are removed by that section before the wire unsubscribe is issued, and the
\* failing wire unsubscribe puts nothing back.
C23_FailedWireUnsubscribeStillCleansUp ==
    /\ [](\A c \in Calls :
             calls[c].op = "mqttUnsubscribe" =>
                 <<calls[c].topic, calls[c].id>> \notin Keys(mqttHandlers))
    /\ [][\A c \in Calls :
             (MqttUnsubscribeStep(c) /\ calls'[c].pc = "wire") =>
                 /\ calls'[c].topic \notin DOMAIN mqttHandlers'
                 /\ calls'[c].topic \notin DOMAIN subscriptions']_vars
    /\ [][\A c \in Calls :
             MqttUnsubscribeWireStep(c) =>
                 /\ mqttHandlers' = mqttHandlers
                 /\ subscriptions' = subscriptions
                 /\ (~wireUnsubFailed /\ wireUnsubFailed') =>
                        calls'[c].res = "wireErr"
                 /\ calls'[c].res = "wireErr" => wireUnsubFailed']_vars

\* a handle has returned the error of its wire unsubscribe, and the topic has
\* neither a handler entry nor an open-flag
C23_Witness ==
    \E c \in Calls :
        /\ IsDone(c, "mqttUnsubscribe")
        /\ calls[c].res = "wireErr"
        /\ calls[c].topic \notin DOMAIN mqttHandlers
        /\ calls[c].topic \notin DOMAIN subscriptions

\* the last dot-separated token of a pattern
LastToken(pattern) ==
    LET tokens == Split(pattern, Dot) IN tokens[Len(tokens)]

\* a pattern with ">" for its final token when that token is "#", and every
\* other character as it is
TrailingHashRewritten(pattern) ==
    IF LastToken(pattern) = <<Hash>>
    THEN [i \in 1..Len(pattern) |->
             IF i = Len(pattern) THEN Gt ELSE pattern[i]]
    ELSE pattern

\* C24: the NATS translator rewrites only a trailing multi-level wildcard:
\* convertSubject replaces "#" with ">" only when "#" is the final token of
\* the pattern and leaves every other character, including a "#" in a
\* non-final position or inside a token, unchanged.
C24_OnlyTrailingHashRewritten ==
    mResult # <<>> => mResult[1] = TrailingHashRewritten(mPattern)

\* the position of the first "#" token of a token sequence, 0 when none
FirstHash(tokens) ==
    IF \E i \in 1..Len(tokens) : tokens[i] = <<Hash>>
    THEN CHOOSE i \in 1..Len(tokens) :
             /\ tokens[i] = <<Hash>>
             /\ \A j \in 1..(i - 1) : tokens[j] # <<Hash>>
    ELSE 0

RECURSIVE JoinDots(_)
JoinDots(tokens) ==
    IF Len(tokens) = 1
    THEN tokens[1]
    ELSE tokens[1] \o <<Dot>> \o JoinDots(Tail2(tokens))

\* X.# for a pattern X.#.Y: the pattern cut after its first "#" token (the
\* pattern itself when it has no "#" token)
CutAfterHash(pattern) ==
    LET tokens == Split(pattern, Dot)
        h == FirstHash(tokens)
    IN IF h = 0 THEN pattern ELSE JoinDots(SubSeq(tokens, 1, h))

\* C25: pattern tokens after "#" are never evaluated: matchEvent(X.#.Y, E)
\* equals matchEvent(X.#, E) for every token prefix X, token suffix Y and
\* event E.
C25_TokensAfterHashIgnored ==
    mResult # <<>> =>
        mResult[1] = matchEvent(CutAfterHash(mPattern), mEvent)

\* a.#.b has matched a.a, an event that does not end in b
C25_Witness ==
    /\ mPattern = <<"a", Dot, Hash, Dot, "b">>
    /\ CutAfterHash(mPattern) = <<"a", Dot, Hash>>
    /\ mEvent = <<"a", Dot, "a">>
    /\ mResult = <<TRUE>>

\* the errors Publish returns before it reads the registry
PublishRejections == {"ErrBrokerClosed", "ctxErr", "encErr"}

\* C26: a Memory Publish with an already-cancelled context returns the
\* context's error, or ErrBrokerClosed when the broker is closed as well; a
\* Publish of a payload that cannot be serialized (on an open broker, under a
\* live context) returns the encoding error.  In each case the call returns
\* at once, the registry, the lock and the set of deliveries are unchanged,
\* and no handler is ever invoked for the call.
C26_PublishRejections ==
    /\ [][\A c \in Calls, e \in Events :
             /\ MemPublish(c, e, "ctx") =>
                    /\ IsDone(c, "publish")'
                    /\ calls'[c].res =
                          IF isClosed THEN "ErrBrokerClosed" ELSE "ctxErr"
                    /\ handlers' = handlers /\ mu' = mu
                    /\ goroutines' = goroutines
             /\ (MemPublish(c, e, "enc") /\ ~isClosed) =>
                    /\ IsDone(c, "publish")'
                    /\ calls'[c].res = "encErr"
                    /\ handlers' = handlers /\ mu' = mu
                    /\ goroutines' = goroutines]_vars
    /\ [](\A c \in Calls :
             (calls[c].op = "publish" /\ calls[c].res \in PublishRejections) =>
                 /\ calls[c].dispatched = {}
                 /\ \A g \in goroutines : g.pub # c)

\* a Publish of user.created has returned the context's error and another the
\* encoding error while a handler is registered under a matching pattern
C26_Witness ==
    /\ \E c \in Calls :
          /\ IsDone(c, "publish") /\ calls[c].res = "ctxErr"
          /\ calls[c].arg = UserCreated
          /\ MatchingKeys(handlers, UserCreated) # {}
    /\ \E c \in Calls :
          /\ IsDone(c, "publish") /\ calls[c].res = "encErr"
          /\ calls[c].arg = UserCreated
          /\ MatchingKeys(handlers, UserCreated) # {}

\* C27: in the MQTT broker a handler failure is contained at the dispatch
\* boundary: when one handler panics while an inbound message is routed, every
\* other handler whose pattern matches that message is still invoked and the
\* registry lock is released.
C27_MqttHandlerPanicContained ==
    \A c \in Calls :
        (IsDone(c, "route") /\ calls[c].res = "panicked") =>
            /\ MatchingTopicKeys(calls[c].snap, calls[c].topic)
                   \subseteq calls[c].dispatched
            /\ c \notin mqttMu.r

\* C28: the AMQP publish channel is never used by two operations at once: no
\* two Publish calls, and no Publish call and the Close of the channel,
\* operate on the publish channel at overlapping times.
C28_PubChUsedByOneAtATime == Cardinality(PubChUsers) <= 1

\* C29: a subscription setup failure is surfaced to the failing call: when the
\* Redis broker cannot establish the pattern subscription, Subscribe returns
\* a non-nil error and starts no consumption task.
C29_RedisSetupFailureSurfaced ==
    [][\A c \in Calls, p \in Patterns :
          RedisSubscribe(c, p, FALSE) =>
              /\ calls'[c].res # "nil"
              /\ c \notin DOMAIN redisSubs']_vars

\* C30: the Memory registry holds no empty pattern entry: in every reachable
\* state in which the registry lock is not held, every pattern key present in
\* the registry maps to at least one handler, after any sequence of Subscribe,
\* unsubscribe and Close.
C30_NoEmptyPatternEntry ==
    (mu.w = 0 /\ mu.r = {}) =>
        \A p \in DOMAIN handlers : DOMAIN handlers[p] # {}

\* an unsubscribe handle has removed the last handler of its pattern, whose
\* entry is gone, while another pattern keeps its handler and no lock is held
C30_Witness ==
    /\ mu.w = 0 /\ mu.r = {}
    /\ handlers # <<>>
    /\ \E u \in Calls :
          /\ IsDone(u, "unsubscribe")
          /\ calls[u].arg \notin DOMAIN handlers

\* C31: NewNATSBrokerWith honours MaxReconnects as documented: -1 means
\* unlimited reconnects, a positive value bounds the attempts, and 0 disables
\* reconnection (the connection is configured with a maximum of 0
\* reconnects).
C31_MaxReconnectsHonoured ==
    built # <<>> => built[1].maxReconnects = options.MaxReconnects

\* C32: NewMQTTBrokerWith honours each recognised quality-of-service level: a
\* broker constructed with QoS 0, 1 or 2 in its options publishes and
\* subscribes at exactly that level.
C32_QoSHonoured ==
    built # <<>> =>
        /\ built[1].qos = options.QoS
        /\ \A i \in DOMAIN built[1].pubQoS : built[1].pubQoS[i] = options.QoS
        /\ \A i \in DOMAIN built[1].subQoS : built[1].subQoS[i] = options.QoS

\* C33: for each AMQP subscription the completion of the consumption task is
\* signalled to its wait counter exactly once: the counter is incremented once
\* when the task starts and decremented once when it finishes, and it never
\* goes below zero.
C33_WaitCounterSignalledOnce ==
    \A s \in DOMAIN wg :
        /\ wg[s] >= 0
        /\ wg[s] = IF task[s] \in {"returned", "exited"} THEN 0 ELSE 1

\* C34: in the Memory broker a closed broker holds no handlers: once Close has
\* returned and every Subscribe call that was running concurrently with it
\* has returned, the registry is empty (and so stays empty), and no Subscribe
\* that returned success has left a handler in a closed broker.
C34_ClosedBrokerHoldsNoHandlers ==
    (/\ \E d \in Calls : IsDone(d, "close")
     /\ \A c \in Calls : calls[c].op = "subscribe" => calls[c].pc = "done") =>
        handlers = <<>>

\* C35: in the MQTT broker a handler that calls Subscribe or an unsubscribe
\* handle of the same broker from inside its own invocation eventually
\* returns from that call: message dispatch never holds the registry lock in
\* a way that blocks the call forever.
C35_HandlerCallsReturn ==
    \A n \in Calls : (calls[n].from # 0) ~> (calls[n].pc = "done")

\* C36: in the AMQP and Redis brokers an unsubscribe handle invoked from
\* inside the handler of its own subscription eventually returns (as long as
\* the process lives): waiting for the consumption task never blocks on the
\* very task that is making the call.
C36_OwnHandleReturnsInsideHandler ==
    \A n \in Calls :
        (calls[n].from # 0) ~> (calls[n].pc = "done" \/ crashed)

C38_MqttBookkeepingConsistent ==
    (mqttMu.w = 0 /\ mqttMu.r = {}) =>
        /\ \A t \in DOMAIN mqttHandlers : DOMAIN mqttHandlers[t] # {}
        /\ \A t \in DOMAIN mqttHandlers \cup DOMAIN subscriptions :
              IsSubscribed(subscriptions, t) <=> LenOf(mqttHandlers, t) > 0

\* a failed Subscribe has been rolled back and, with no lock held, a topic has
\* a handler and its flag
C38_Witness ==
    /\ mqttMu.w = 0 /\ mqttMu.r = {}
    /\ \E c \in Calls : IsDone(c, "mqttSubscribe") /\ calls[c].res = "wireErr"
    /\ \E t \in DOMAIN mqttHandlers : IsSubscribed(subscriptions, t)

====
